---- MODULE Spec2Model ----
(***************************************************************************)
(* A model of the viewer of gh-viewer (createViewer and its helpers): the  *)
(* repository discovery and merge, the content access operations, the tree *)
(* glob matcher with its cache.  Strings the code inspects character by    *)
(* character are sequences of one-character strings.                       *)
(***************************************************************************)
EXTENDS Integers, Sequences, FiniteSets, TLC

VARIABLES
    authToken,    \* createViewer: whether a token is configured
    large,        \* whether the remote answers a channel's first request with
                  \* a full page
    pc,           \* position of the running operation (the request it awaits)
    params,       \* the parameters of the running call
    collected,    \* searchRepositories: the Map `collected`, in insertion order
    page,         \* collectSearchResults: the local `page`
    calls,        \* the transport's call log, one entry per request issued
    delivered0,   \* payloads the priority-0 channel has delivered so far
    delivered1,   \* payloads the search endpoint has delivered so far
    sizeAfterP0,  \* collected.size when the priority-0 phase ended (-1 before)
    sorted,       \* searchRepositories: the local `sorted`
    result,       \* the value the operation returned
    outcome,      \* "none" while running, then "ok", "error" (the call
                  \* threw a ViewerError) or "rejected" (it threw again an
                  \* error of the user listing that is no ViewerError)
    remoteErrors  \* the channels ("user", "org", "search") a request of which
                  \* was answered with a non-success status

VARIABLES
    listPc,       \* listPath: "idle", "await" (the contents request), "done"
    listArgs,     \* listPath: rawPath and options of the running call
    listCalls,    \* listPath: the contents requests issued, in order
    listData,     \* listPath: the body of the contents response
    listResult,   \* listPath: the ListResult returned
    listOutcome   \* listPath: "none", "ok" or "error"

VARIABLES
    readPc,       \* readFile: "idle", "await" (the contents request), "done"
    readArgs,     \* readFile: filePath and options of the running call
    readCalls,    \* readFile: the contents requests issued, in order
    readSource,   \* readFile: the remote file the response was made from
    readData,     \* readFile: the body of the contents response
    readResult,   \* readFile: the ReadResult returned
    readOutcome   \* readFile: "none", "ok" or "error"

VARIABLES
    treeCache,    \* createViewer: the Map treeCache, cache key -> entry
    repoDefaults, \* createViewer: the Map repoDefaults, owner/repo -> branch
    globPc,       \* globFiles: "idle", "awaitDefault", "awaitTree", "done"
    globArgs,     \* globFiles: repo, pattern and options of the running call
    globRef,      \* globFiles: the local `ref` once resolved
    globCalls,    \* globFiles: the requests issued since the viewer was made
    globData,     \* globFiles: the body of the last tree response
    globResult,   \* globFiles: the GlobResult returned
    globOutcome,  \* globFiles: "none", "ok" or "error"
    globStarted,  \* number of globFiles calls made on the viewer
    treeSource,   \* cache key -> the tree response its entry was computed from
    firstResult,  \* (repo, ref, pattern) -> result of its first successful call
    globKnown,    \* the triples that had succeeded when the running call began
    globFetched,  \* whether the running call has issued a tree request
    callerList,   \* the array the caller holds as result.matches: its items,
                  \* and whether it is the very array the cache entry holds
    mutatedFor    \* the triples whose returned array the caller has mutated

\* globFiles calls that run at the same time on one viewer
VARIABLES
    inflight      \* caller -> its call: pc, arguments, ref, result

\* the exported and internal pure functions, applied to one input
VARIABLES
    slug,         \* the argument of parseRepo
    parsed,       \* <<>> before the call, then <<its result or failure>>
    snippetArgs,  \* the arguments of createSnippetsFromLines
    snippets,     \* <<>> before the call, then <<the snippets returned>>
    pureArgs,     \* the arguments of another function applied on its own
    pureResult    \* <<>> before the call, then <<its result>>

reposVars == <<authToken, large, pc, params, collected, page, calls, delivered0,
               delivered1, sizeAfterP0, sorted, result, outcome, remoteErrors>>

listVars == <<listPc, listArgs, listCalls, listData, listResult, listOutcome>>

readVars == <<readPc, readArgs, readCalls, readSource, readData, readResult,
              readOutcome>>

globVars == <<treeCache, repoDefaults, globPc, globArgs, globRef, globCalls,
              globData, globResult, globOutcome, globStarted, treeSource, firstResult,
              globKnown, globFetched, callerList, mutatedFor>>

\* searchCode, searchCommits and compareCommits, called one after another
VARIABLES
    client,          \* the client of the viewer: how many calls it makes
                     \* and which inputs it draws them from
    blobCache,       \* Map: owner/repo:sha -> the lines of the blob
    searchOp,        \* the operation of the running or last call
    searchPc,        \* "idle", "awaitPage", "awaitBlob", "awaitCompare", "done"
    searchArgs,      \* the arguments of the call
    searchHits,      \* the ranked hit list the remote holds for the query
    searchCalls,     \* requests issued since construction, oldest first
    searchCollected, \* collected
    searchPage,      \* page
    fileCache,       \* the Map local to one searchCode call
    prepared,        \* prepared, while the blobs of the slice are loaded
    searchData,      \* body of the compare response
    searchResult,    \* the value returned by the last call
    searchOutcome,   \* "none", "ok", "invalid", "http", "failure"
    searchStarted,   \* calls made since construction
    callStart,       \* Len(searchCalls) when the running call began
    blobFailed       \* the blob keys whose load has failed and that no
                     \* later load has brought

concurrentVars == <<inflight>>

pureVars == <<slug, parsed, snippetArgs, snippets, pureArgs, pureResult>>

searchVars == <<client, blobCache, searchOp, searchPc, searchArgs, searchHits,
                searchCalls, searchCollected, searchPage, fileCache, prepared,
                searchData, searchResult, searchOutcome, searchStarted,
                callStart, blobFailed>>

vars == <<reposVars, listVars, readVars, globVars, pureVars, searchVars,
          concurrentVars>>

\* the variables an operation leaves alone
otherThanRepos == <<listVars, readVars, globVars, pureVars, searchVars,
                   concurrentVars>>
otherThanList == <<reposVars, readVars, globVars, pureVars, searchVars,
                   concurrentVars>>
otherThanRead == <<reposVars, listVars, globVars, pureVars, searchVars,
                   concurrentVars>>
otherThanGlob == <<reposVars, listVars, readVars, pureVars, searchVars,
                   concurrentVars>>
otherThanPure == <<reposVars, listVars, readVars, globVars, searchVars,
                   concurrentVars>>
otherThanSearch == <<reposVars, listVars, readVars, globVars, pureVars,
                   concurrentVars>>

(***************************************************************************)
(* The state of each operation after createViewer, before any call.        *)
(***************************************************************************)
IdleRepos ==
    /\ authToken = TRUE
    /\ large = FALSE
    /\ pc = "idle"
    /\ params = [limit |-> 0, offset |-> 0, pattern |-> <<>>,
                 organization |-> <<>>, language |-> <<>>]
    /\ collected = <<>>
    /\ page = 1
    /\ calls = <<>>
    /\ delivered0 = {}
    /\ delivered1 = {}
    /\ sizeAfterP0 = -1
    /\ sorted = <<>>
    /\ result = <<>>
    /\ outcome = "none"
    /\ remoteErrors = {}

IdleList ==
    /\ listPc = "idle"
    /\ listArgs = <<>>
    /\ listCalls = <<>>
    /\ listData = <<>>
    /\ listResult = <<>>
    /\ listOutcome = "none"

IdleRead ==
    /\ readPc = "idle"
    /\ readArgs = <<>>
    /\ readCalls = <<>>
    /\ readSource = <<>>
    /\ readData = <<>>
    /\ readResult = <<>>
    /\ readOutcome = "none"

\* a caller that has not called
IdleCall == [pc |-> "idle", args |-> <<>>, ref |-> <<>>, result |-> <<>>]

Callers == {1, 2}

IdleGlob ==
    /\ inflight = [c \in Callers |-> IdleCall]
    /\ treeCache = <<>>
    /\ repoDefaults = <<>>
    /\ globPc = "idle"
    /\ globArgs = <<>>
    /\ globRef = <<>>
    /\ globCalls = <<>>
    /\ globData = <<>>
    /\ globResult = <<>>
    /\ globOutcome = "none"
    /\ globStarted = 0
    /\ treeSource = <<>>
    /\ firstResult = <<>>
    /\ globKnown = {}
    /\ globFetched = FALSE
    /\ callerList = [items |-> <<>>, shared |-> FALSE]
    /\ mutatedFor = {}

IdlePure ==
    /\ slug = <<>>
    /\ parsed = <<>>
    /\ snippetArgs = <<>>
    /\ snippets = <<>>
    /\ pureArgs = <<>>
    /\ pureResult = <<>>

\* the search operations before any call, the client apart
IdleSearch ==
    /\ blobCache = <<>>
    /\ searchOp = "none"
    /\ searchPc = "idle"
    /\ searchArgs = <<>>
    /\ searchHits = <<>>
    /\ searchCalls = <<>>
    /\ searchCollected = <<>>
    /\ searchPage = 1
    /\ fileCache = <<>>
    /\ prepared = <<>>
    /\ searchData = <<>>
    /\ searchResult = <<>>
    /\ searchOutcome = "none"
    /\ searchStarted = 0
    /\ callStart = 0
    /\ blobFailed = {}

(***************************************************************************)
(* Bounds of the model.                                                    *)
(***************************************************************************)
NumNames == 2        \* repositories of the small catalogue
MaxStars == 1        \* star counts 0..MaxStars
MaxPageLen == 2      \* items of a small response page
MaxPages == 2        \* pages of a listing (one more after a full page)
MaxLimit == 2        \* params.limit ranges over 0..MaxLimit
MaxOffset == 1       \* params.offset ranges over 0..MaxOffset
MaxListLen == 3      \* entries of a small directory
MaxListLimit == 2    \* listPath: options.limit ranges over -1..MaxListLimit
MaxListOffset == 2   \* listPath: options.offset ranges over -1..MaxListOffset
MaxTextLen == 4      \* bytes of a small remote file
MaxRangeStart == 3   \* readFile: range.start ranges over 0..MaxRangeStart
MaxRangeEnd == 4     \* readFile: range.end ranges over 0..MaxRangeEnd
TallLines == 12      \* lines of the tall remote file
MaxGlobCalls == 3    \* globFiles calls made on one viewer
MaxSlugLen == 4      \* characters of a slug given to parseRepo
MaxSnippetLines == 8 \* lines of a file given to createSnippetsFromLines
MaxContext == 5      \* createSnippetsFromLines: context ranges over 0..MaxContext
MaxSmallHits == 2    \* hits of a short remote hit list
MaxSearchCalls == 2  \* search and compare calls made on one viewer
MaxViewerCalls == 4  \* calls of a client that uses globFiles and searchCode
MaxFullPages == 4    \* search pages whose number and request are recorded
MaxCompareFiles == 2 \* file records of a compare response

(***************************************************************************)
(* Program constants.                                                      *)
(***************************************************************************)
RepoLimitDefault == 30
RepoLimitMax == 100
SearchPageSize == 100
IntermediateMargin == 100
ListLimitFallback == 1
ListLimitMax == 1000
MaxFileBytes == 204800
LineNumberWidth == 6
CodeLimitDefault == 30
CommitLimitDefault == 50
SearchLimitMax == 100
ContextDefault == 2

\* the clients of a viewer
GlobClient == [maxCalls |-> MaxGlobCalls, inputs |-> "short"]

Min(a, b) == IF a < b THEN a ELSE b
Max(a, b) == IF a > b THEN a ELSE b

(***************************************************************************)
(* Strings.                                                                *)
(***************************************************************************)
\* the lower-case letter of each upper-case letter
LowerCase ==
    [ A |-> "a", B |-> "b", C |-> "c", D |-> "d", E |-> "e", F |-> "f",
      G |-> "g", H |-> "h", I |-> "i", J |-> "j", K |-> "k", L |-> "l",
      M |-> "m", N |-> "n", O |-> "o", P |-> "p", Q |-> "q", R |-> "r",
      S |-> "s", T |-> "t", U |-> "u", V |-> "v", W |-> "w", X |-> "x",
      Y |-> "y", Z |-> "z" ]

\* String.prototype.toLowerCase on one character: an upper-case letter goes
\* to its lower-case letter, any other character stays
toLowerCase1(c) == IF c \in DOMAIN LowerCase THEN LowerCase[c] ELSE c

toLowerCase(s) == [i \in 1..Len(s) |-> toLowerCase1(s[i])]

\* String.prototype.includes
includes(hay, needle) ==
    \E i \in 0..(Len(hay) - Len(needle)) :
        \A j \in 1..Len(needle) : hay[i + j] = needle[j]

RECURSIVE Digits(_)
Digits(n) ==
    LET d == << <<"0">>, <<"1">>, <<"2">>, <<"3">>, <<"4">>,
                <<"5">>, <<"6">>, <<"7">>, <<"8">>, <<"9">> >>
    IN  IF n < 10 THEN d[n + 1] ELSE Digits(n \div 10) \o d[(n % 10) + 1]

\* pattern.split(/\s+/).filter(term => term.length > 0), a scan left to right
RECURSIVE SplitTerms(_, _, _)
SplitTerms(s, i, cur) ==
    IF i > Len(s) THEN (IF cur = <<>> THEN <<>> ELSE <<cur>>)
    ELSE IF s[i] = " "
         THEN (IF cur = <<>> THEN <<>> ELSE <<cur>>) \o SplitTerms(s, i + 1, <<>>)
         ELSE SplitTerms(s, i + 1, Append(cur, s[i]))

equalsIgnoreCase(a, b) == toLowerCase(a) = toLowerCase(b)

matchesPattern(value, pattern) ==
    LET terms == SplitTerms(toLowerCase(pattern), 1, <<>>)
        haystack == toLowerCase(value)
    IN  \/ Len(terms) = 0
        \/ \A k \in 1..Len(terms) : includes(haystack, terms[k])

\* String.prototype.trim, for the space character
RECURSIVE trimStart(_)
trimStart(s) ==
    IF s # <<>> /\ Head(s) = " " THEN trimStart(Tail(s)) ELSE s

RECURSIVE trimEnd(_)
trimEnd(s) ==
    IF s # <<>> /\ s[Len(s)] = " " THEN trimEnd(SubSeq(s, 1, Len(s) - 1)) ELSE s

trim(s) == trimEnd(trimStart(s))

normalizeLimitUncapped(limit, fallback, max) ==
    IF limit <= 0 THEN fallback ELSE limit

normalizeLimit(limit, fallback, max) ==
    IF limit <= 0 THEN fallback ELSE Min(limit, max)

normalizeOffset(offset) == IF offset <= 0 THEN 0 ELSE offset

\* Array.prototype.slice(from, to) for 0 <= from
Slice(s, from, to) == SubSeq(s, from + 1, Min(to, Len(s)))

(***************************************************************************)
(* The remote's repositories.  A payload (GitHubRepoSummary) carries       *)
(* full_name as the number fn of the name in the catalogue (0: the field  *)
(* is missing), stargazers_count, language (<<>>: null) and score          *)
(* (<<>>: missing).  The full name, the name and owner.login of a number   *)
(* are those of the catalogue.                                             *)
(***************************************************************************)
Names == 1..NumNames
Stars == 0..MaxStars
Langs == { <<>>, <<"T", "S">>, <<"g", "o">> }

OwnerOf(fn) == IF fn = 2 THEN <<"b">> ELSE <<"A">>
NameOf(fn) ==
    CASE fn = 1 -> <<"x">> [] fn = 2 -> <<"y">> [] OTHER -> <<"r">> \o Digits(fn)
FullNameOf(fn) == OwnerOf(fn) \o <<"/">> \o NameOf(fn)

\* the filters of a call: nothing, or a pattern, a language, an organization
FilterSet ==
    { [pattern |-> <<>>, organization |-> <<>>, language |-> <<>>],
      [pattern |-> <<"x">>, organization |-> <<>>, language |-> <<>>],
      [pattern |-> <<>>, organization |-> <<>>, language |-> <<"t", "s">>],
      [pattern |-> <<>>, organization |-> <<"a">>, language |-> <<>>],
      [pattern |-> <<>>, organization |-> <<"a">>, language |-> <<"t", "s">>] }

\* the calls made against a small remote
ParamSet ==
    { [limit |-> l, offset |-> o, pattern |-> f.pattern,
       organization |-> f.organization, language |-> f.language] :
        l \in 0..MaxLimit, o \in 0..MaxOffset, f \in FilterSet }

\* the calls made against a large remote
LargeParamSet ==
    { p \in ParamSet : p.limit >= 1 /\ p.language = <<>> }

\* The payloads a channel may deliver to a call.  Without a language filter
\* nothing reads the language of a payload, and one value stands for all;
\* with one, the languages vary and the stars are those of the channel.
Payloads0(p) ==
    IF p.language = <<>>
    THEN [fn : Names, stars : Stars, lang : { <<"T", "S">> }, score : { <<>> }]
    ELSE [fn : Names, stars : {0}, lang : Langs, score : { <<>> }]

Payloads1(p) ==
    IF p.language = <<>>
    THEN [fn : Names, stars : Stars, lang : { <<"T", "S">> },
          score : { <<>>, <<1>> }]
    ELSE [fn : Names, stars : {MaxStars}, lang : Langs, score : { <<>> }]

\* a full page of SearchPageSize repositories outside the small catalogue
BulkPage ==
    [i \in 1..SearchPageSize |->
        [fn |-> NumNames + i, stars |-> 0, lang |-> <<"T", "S">>,
         score |-> <<>>]]

\* the full page that follows BulkPage in the listings of a large remote
SecondBulkPage ==
    [i \in 1..SearchPageSize |->
        [fn |-> NumNames + SearchPageSize + i, stars |-> 0,
         lang |-> <<"T", "S">>, score |-> <<>>]]

SmallPages(P) == UNION { [1..n -> P] : n \in 0..MaxPageLen }

Range(s) == { s[i] : i \in 1..Len(s) }

\* the remote holds one payload per full name and channel
Consistent(pg, delivered) ==
    \A q1 \in Range(pg), q2 \in Range(pg) \cup delivered :
        q1.fn = q2.fn => q1 = q2

Limit(p) == normalizeLimit(p.limit, RepoLimitDefault, RepoLimitMax)
Offset(p) == normalizeOffset(p.offset)
ToCollect(p) == Offset(p) + Limit(p)
MaxIntermediate(p) == ToCollect(p) + IntermediateMargin

Null == [fullName |-> 0, language |-> <<>>, stars |-> 0]

mapRepoSummary(repo) ==
    IF repo.fn = 0 THEN Null
    ELSE [fullName |-> repo.fn, language |-> repo.lang, stars |-> repo.stars]

\* index of the entry of `coll` keyed by fullName, 0 when there is none
IndexOf(coll, fullName) ==
    IF \E i \in 1..Len(coll) : coll[i].summary.fullName = fullName
    THEN CHOOSE i \in 1..Len(coll) : coll[i].summary.fullName = fullName
    ELSE 0

\* pattern && !matchesPattern(summary.fullName, pattern)
\*         && !matchesPattern(summary.name, pattern)
patternRejects(fullName, name, pattern) ==
    /\ pattern # <<>>
    /\ ~matchesPattern(fullName, pattern)
    /\ ~matchesPattern(name, pattern)

\* the early returns of addRepository: TRUE when the candidate is dropped
rejected(summary, repo, priority, p) ==
    LET pattern == trim(p.pattern)
        organization == trim(p.organization)
        language == trim(p.language)
    IN  \/ summary = Null
        \/ /\ organization # <<>>
           /\ OwnerOf(repo.fn) # <<>>
           /\ ~equalsIgnoreCase(OwnerOf(repo.fn), organization)
        \/ patternRejects(FullNameOf(summary.fullName), NameOf(repo.fn),
                          pattern)
        \/ /\ language # <<>>
           /\ summary.language # <<>>
           /\ ~equalsIgnoreCase(summary.language, language)
        \/ language # <<>> /\ summary.language = <<>> /\ priority > 0

mergeEntryLastWins(coll, entry) ==
    LET existing == IndexOf(coll, entry.summary.fullName)
    IN  IF existing = 0 THEN Append(coll, entry)
        ELSE [coll EXCEPT ![existing] = entry]

\* the end of addRepository: collected.get, then collected.set unless an
\* entry of the same or a better priority holds the key
mergeEntry(coll, entry) ==
    LET existing == IndexOf(coll, entry.summary.fullName)
    IN  IF existing = 0 THEN Append(coll, entry)
        ELSE IF coll[existing].priority > entry.priority
        THEN [coll EXCEPT ![existing] = entry]
        ELSE coll

addRepository(coll, repo, priority, p) ==
    LET summary == mapRepoSummary(repo)
    IN  IF rejected(summary, repo, priority, p) THEN coll
        ELSE mergeEntry(coll, [summary |-> summary, priority |-> priority,
                               stars |-> summary.stars, score |-> repo.score])

\* the for loop over the items lo..hi of one page, left when collected.size
\* reaches the cap; st = [coll, capped] is the loop's state before item lo
\* (the items are taken in order; the range is halved to keep the
\* evaluation shallow, and the state after the left half is a value of
\* its own before the right half is taken)
RECURSIVE AddRange(_, _, _, _, _, _)
AddRange(st, pg, lo, hi, priority, p) ==
    IF st.capped \/ lo > hi THEN st
    ELSE IF lo = hi
    THEN LET c2 == addRepository(st.coll, pg[lo], priority, p)
         IN  [coll |-> c2, capped |-> Len(c2) >= MaxIntermediate(p)]
    ELSE LET mid == (lo + hi) \div 2
         IN  CHOOSE r \in { AddRange(left, pg, mid + 1, hi, priority, p) :
                              left \in {AddRange(st, pg, lo, mid, priority, p)} } :
                 TRUE

AddPageUncapped(coll, pg, priority, p) ==
    [coll |-> AddRange([coll |-> coll, capped |-> FALSE], pg, 1, Len(pg),
                       priority, [p EXCEPT !.limit = RepoLimitMax,
                                           !.offset = SearchPageSize]).coll,
     capped |-> FALSE]

AddPage(coll, pg, priority, p) ==
    AddRange([coll |-> coll, capped |-> FALSE], pg, 1, Len(pg), priority, p)

\* The order String.prototype.localeCompare gives the characters full names
\* are made of when no locale is named: the punctuation goes before the
\* digits and the digits before the letters, and a letter has the place of
\* its lower-case form.
Collation ==
    << "/", "0", "1", "2", "3", "4", "5", "6", "7", "8", "9",
       "a", "b", "c", "d", "e", "f", "g", "h", "i", "j", "k",
       "l", "m", "n", "o", "p", "q", "r", "s", "t", "u", "v",
       "w", "x", "y", "z" >>

\* the place of each character in Collation
RECURSIVE collationFrom(_)
collationFrom(i) ==
    IF i > Len(Collation) THEN <<>>
    ELSE (Collation[i] :> i) @@ collationFrom(i + 1)

collationPlace == collationFrom(1)

collationKey(c) == collationPlace[toLowerCase1(c)]

\* the first position from i on at which the sequences a and b differ, 0
\* when they agree up to the end of the shorter one
RECURSIVE firstDifference(_, _, _)
firstDifference(a, b, i) ==
    IF i > Len(a) \/ i > Len(b) THEN 0
    ELSE IF a[i] # b[i] THEN i
    ELSE firstDifference(a, b, i + 1)

collationKeys(s) == [i \in 1..Len(s) |-> collationKey(s[i])]

\* String.prototype.localeCompare: the strings are compared character by
\* character, a digit as a character ("r10" goes before "r3"), a prefix
\* before its extensions; the case of the letters only decides between
\* strings that are otherwise the same, lower case first
localeCompare(a, b) ==
    LET i == firstDifference(collationKeys(a), collationKeys(b), 1)
        j == firstDifference(a, b, 1)
    IN  IF i # 0
        THEN IF collationKey(a[i]) < collationKey(b[i]) THEN -1 ELSE 1
        ELSE IF Len(a) # Len(b)
        THEN IF Len(a) < Len(b) THEN -1 ELSE 1
        ELSE IF j # 0
        THEN IF toLowerCase1(a[j]) = a[j] THEN -1 ELSE 1
        ELSE 0

\* the numbers of the catalogue: the small one, and the names of the
\* listings of a large remote
Catalogue == 1..(NumNames + 2 * SearchPageSize + 1)

\* the full names of the numbers lo..hi
RECURSIVE fullNamesIn(_, _)
fullNamesIn(lo, hi) ==
    IF lo > hi THEN <<>>
    ELSE IF lo = hi THEN <<FullNameOf(lo)>>
    ELSE fullNamesIn(lo, (lo + hi) \div 2)
         \o fullNamesIn(((lo + hi) \div 2) + 1, hi)

\* the full names of the catalogue, by number
fullNames == fullNamesIn(1, Cardinality(Catalogue))

\* s lists numbers in the order of localeCompare on their full names; how
\* many of them do not go after the full name of fn, when that holds of
\* those before place lo and of none behind place hi
RECURSIVE placeAmong(_, _, _, _)
placeAmong(s, fn, lo, hi) ==
    IF lo > hi THEN lo - 1
    ELSE IF localeCompare(fullNames[s[(lo + hi) \div 2]], fullNames[fn]) <= 0
    THEN placeAmong(s, fn, ((lo + hi) \div 2) + 1, hi)
    ELSE placeAmong(s, fn, lo, ((lo + hi) \div 2) - 1)

\* fn put into s behind the numbers that do not go after it
insertName(s, fn) ==
    LET k == placeAmong(s, fn, 1, Len(s))
    IN  SubSeq(s, 1, k) \o <<fn>> \o SubSeq(s, k + 1, Len(s))

\* the numbers lo..hi put into s one after the other (the range is halved,
\* and the order after the left half is a value of its own before the
\* right half is taken)
RECURSIVE insertNames(_, _, _)
insertNames(s, lo, hi) ==
    IF lo > hi THEN s
    ELSE IF lo = hi THEN insertName(s, lo)
    ELSE CHOOSE r \in { insertNames(left, ((lo + hi) \div 2) + 1, hi) :
                          left \in { insertNames(s, lo, (lo + hi) \div 2) } } :
             TRUE

\* the numbers of the catalogue in the order of localeCompare on their full
\* names
catalogueOrder == insertNames(<<>>, 1, Len(fullNames))

\* the places in that order of the numbers lo..hi
RECURSIVE placesIn(_, _)
placesIn(lo, hi) ==
    IF lo > hi THEN <<>>
    ELSE IF lo = hi
    THEN << CHOOSE i \in 1..Len(catalogueOrder) : catalogueOrder[i] = lo >>
    ELSE placesIn(lo, (lo + hi) \div 2) \o placesIn(((lo + hi) \div 2) + 1, hi)

\* for each number of the catalogue, the place of its full name
placeOf == placesIn(1, Len(catalogueOrder))

\* a.summary.fullName.localeCompare(b.summary.fullName) for two numbers of
\* the catalogue: localeCompare(FullNameOf(f), FullNameOf(g)), read from the
\* order of the catalogue, which is worked out once (the difference of the
\* places is a value of its own before its sign is taken)
compareFullNames(f, g) ==
    CHOOSE r \in { IF d < 0 THEN -1 ELSE IF d > 0 THEN 1 ELSE 0 :
                     d \in { placeOf[f] - placeOf[g] } } : TRUE

ScoreOrZero(score) == IF score = <<>> THEN 0 ELSE score[1]

compareEntriesStarsAscending(a, b) ==
    IF a.priority # b.priority THEN a.priority - b.priority
    ELSE IF b.stars # a.stars THEN a.stars - b.stars
    ELSE IF ScoreOrZero(b.score) # ScoreOrZero(a.score)
         THEN ScoreOrZero(b.score) - ScoreOrZero(a.score)
    ELSE compareFullNames(a.summary.fullName, b.summary.fullName)

\* the comparator of the sort: negative when a goes first
compareEntries(a, b) ==
    IF a.priority # b.priority THEN a.priority - b.priority
    ELSE IF b.stars # a.stars THEN b.stars - a.stars
    ELSE IF ScoreOrZero(b.score) # ScoreOrZero(a.score)
         THEN ScoreOrZero(b.score) - ScoreOrZero(a.score)
    ELSE compareFullNames(a.summary.fullName, b.summary.fullName)

\* x put into the sorted s behind every element that does not go after it
InsertSorted(s, x) ==
    LET k == Cardinality({ i \in 1..Len(s) : compareEntries(s[i], x) <= 0 })
    IN  SubSeq(s, 1, k) \o <<x>> \o SubSeq(s, k + 1, Len(s))

\* the items lo..hi of s put one by one, in order, into the sorted acc
\* (the test on Len(acc) makes the evaluation take acc first)
RECURSIVE InsertRange(_, _, _, _)
InsertRange(acc, s, lo, hi) ==
    IF Len(acc) < 0 \/ lo > hi THEN acc
    ELSE IF lo = hi THEN InsertSorted(acc, s[lo])
    ELSE LET mid == (lo + hi) \div 2
         IN  CHOOSE r \in { InsertRange(left, s, mid + 1, hi) :
                              left \in {InsertRange(acc, s, lo, mid)} } : TRUE

\* Array.prototype.sort with the comparator compareEntries (a stable sort)
SortEntries(s) == InsertRange(<<>>, s, 1, Len(s))

Summaries(s) == [i \in 1..Len(s) |-> s[i].summary]

SliceResultNoOffset(srt, p) == Summaries(Slice(srt, 0, Limit(p)))

\* sorted.slice(offset, offset + limit).map(entry => entry.summary)
SliceResult(srt, p) == Summaries(Slice(srt, Offset(p), Offset(p) + Limit(p)))

needsFallbackInclusive(size, p) == size <= ToCollect(p)

\* the test that starts the search fallback
needsFallback(size, p) == size < ToCollect(p)

(***************************************************************************)
(* searchRepositories.  An action runs from the arrival of a response to   *)
(* the next request.                                                       *)
(***************************************************************************)
Finish(coll, pg, log) ==
    /\ collected' = coll
    /\ page' = pg
    /\ calls' = log
    /\ sorted' = SortEntries(coll)
    /\ result' = SliceResult(sorted', params')
    /\ pc' = "done"
    /\ outcome' = "ok"

Fail ==
    /\ pc' = "done"
    /\ outcome' = "error"
    /\ UNCHANGED <<collected, page, calls, sorted, result>>

\* collectSearchResults: the loop test, then the request of page pg
SearchLoop(coll, pg, log) ==
    IF Len(coll) < MaxIntermediate(params')
    THEN /\ collected' = coll
         /\ page' = pg
         /\ calls' = Append(log, "search")
         /\ pc' = "awaitSearch"
         /\ UNCHANGED <<sorted, result, outcome>>
    ELSE Finish(coll, pg, log)

\* the end of the priority-0 phase: the fallback test
AfterP0(coll, log) ==
    /\ sizeAfterP0' = Len(coll)
    /\ IF needsFallback(Len(coll), params')
       THEN SearchLoop(coll, 1, log)
       ELSE Finish(coll, page, log)

searchRepositories ==
    /\ pc = "idle"
    /\ UNCHANGED otherThanRepos
    /\ \E p \in (IF large THEN LargeParamSet ELSE ParamSet) :
        /\ params' = p
        /\ UNCHANGED <<authToken, large, delivered0, delivered1, remoteErrors>>
        /\ IF trim(p.organization) # <<>>
           THEN /\ calls' = Append(calls, "org")
                /\ pc' = "awaitOrg"
                /\ UNCHANGED <<collected, page, sizeAfterP0, sorted, result,
                               outcome>>
           ELSE IF authToken
           THEN /\ calls' = Append(calls, "user")
                /\ pc' = "awaitUser"
                /\ UNCHANGED <<collected, page, sizeAfterP0, sorted, result,
                               outcome>>
           ELSE AfterP0(collected, calls)

P0Requests == Cardinality({ i \in 1..Len(calls) : calls[i] \in {"org", "user"} })

\* the pages the priority-0 channel may answer with now: the second page
\* of a large remote may be a full one too
Pages0 ==
    IF large /\ P0Requests = 1 THEN {BulkPage}
    ELSE { pg \in SmallPages(Payloads0(params)) : Consistent(pg, delivered0) }
         \cup (IF large /\ P0Requests = 2 THEN {SecondBulkPage} ELSE {})

\* the response with the page pg may carry a next link: a listing has
\* MaxPages pages at most, and one more when page MaxPages is a full page
MayLink(pg) == P0Requests < MaxPages \/ Len(pg) = SearchPageSize

\* the loop of collectOrgRepositories / collectUserRepositories with a
\* break in place of the return at the cap: the next link is followed
P0PageFollowsLink(kind, pg, next) ==
    \E r \in {AddPage(collected, pg, 0, params)} :
        /\ delivered0' = delivered0 \cup Range(pg)
        /\ UNCHANGED <<authToken, large, params, delivered1, remoteErrors>>
        /\ IF next
           THEN /\ collected' = r.coll
                /\ calls' = Append(calls, kind)
                /\ UNCHANGED <<pc, page, sizeAfterP0, sorted, result, outcome>>
           ELSE AfterP0(r.coll, calls)

\* one page of the loop of collectOrgRepositories / collectUserRepositories
P0Page(kind, pg, next) ==
    \E r \in {AddPage(collected, pg, 0, params)} :
        /\ delivered0' = delivered0 \cup Range(pg)
        /\ UNCHANGED <<authToken, large, params, delivered1, remoteErrors>>
        /\ IF r.capped THEN AfterP0(r.coll, calls)
           ELSE IF next
           THEN /\ collected' = r.coll
                /\ calls' = Append(calls, kind)
                /\ UNCHANGED <<pc, page, sizeAfterP0, sorted, result, outcome>>
           ELSE AfterP0(r.coll, calls)

collectOrgRepositories ==
    /\ pc = "awaitOrg"
    /\ UNCHANGED otherThanRepos
    /\ \E pg \in Pages0, next \in BOOLEAN :
        /\ next => MayLink(pg)
        /\ P0Page("org", pg, next)

collectOrgRepositoriesError ==
    /\ pc = "awaitOrg"
    /\ UNCHANGED otherThanRepos
    /\ Fail
    /\ remoteErrors' = remoteErrors \cup {"org"}
    /\ UNCHANGED <<authToken, large, params, delivered0, delivered1, sizeAfterP0>>

collectUserRepositories ==
    /\ pc = "awaitUser"
    /\ UNCHANGED otherThanRepos
    /\ \E pg \in Pages0, next \in BOOLEAN :
        /\ next => MayLink(pg)
        /\ P0Page("user", pg, next)

collectUserRepositoriesErrorThrown ==
    /\ pc = "awaitUser"
    /\ UNCHANGED otherThanRepos
    /\ UNCHANGED <<authToken, large, params, delivered0, delivered1, sizeAfterP0>>
    /\ remoteErrors' = remoteErrors \cup {"user"}
    /\ Fail

\* a ViewerError of the user listing is caught by searchRepositories
collectUserRepositoriesError ==
    /\ pc = "awaitUser"
    /\ UNCHANGED otherThanRepos
    /\ UNCHANGED <<authToken, large, params, delivered0, delivered1>>
    /\ remoteErrors' = remoteErrors \cup {"user"}
    /\ AfterP0(collected, calls)

\* a failure of the user listing that is not a ViewerError (fetchImpl
\* rejects, or the body of the response is not a JSON list) is thrown again
\* by the catch of searchRepositories: the call ends with it, no search
\* request is made
collectUserRepositoriesRejected ==
    /\ pc = "awaitUser"
    /\ UNCHANGED otherThanRepos
    /\ UNCHANGED <<authToken, large, params, delivered0, delivered1,
                   sizeAfterP0, remoteErrors>>
    /\ pc' = "done"
    /\ outcome' = "rejected"
    /\ UNCHANGED <<collected, page, calls, sorted, result>>

\* the pages the search may answer with now: the second page of a large
\* remote may be a full one too
Pages1 ==
    IF large /\ page = 1 THEN {BulkPage}
    ELSE { pg \in SmallPages(Payloads1(params)) : Consistent(pg, delivered1) }
         \cup (IF large /\ page = 2 THEN {SecondBulkPage} ELSE {})

\* one turn of the loop of collectSearchResults: the page `items` arrives
SearchPage(items) ==
    LET r == AddPage(collected, items, 1, params)
    IN  /\ delivered1' = delivered1 \cup Range(items)
        /\ UNCHANGED <<authToken, large, params, delivered0, sizeAfterP0,
                       remoteErrors>>
        /\ IF Len(items) = 0 THEN Finish(collected, page, calls)
           ELSE IF Len(items) < SearchPageSize
           THEN Finish(r.coll, page, calls)
           ELSE SearchLoop(r.coll, page + 1, calls)

collectSearchResults ==
    /\ pc = "awaitSearch"
    /\ UNCHANGED otherThanRepos
    /\ \E items \in Pages1 : SearchPage(items)

collectSearchResultsError ==
    /\ pc = "awaitSearch"
    /\ UNCHANGED otherThanRepos
    /\ Fail
    /\ remoteErrors' = remoteErrors \cup {"search"}
    /\ UNCHANGED <<authToken, large, params, delivered0, delivered1, sizeAfterP0>>

InitRepos ==
    /\ authToken \in BOOLEAN
    /\ large \in BOOLEAN
    /\ pc = "idle"
    /\ params = [limit |-> 0, offset |-> 0, pattern |-> <<>>,
                 organization |-> <<>>, language |-> <<>>]
    /\ collected = <<>>
    /\ page = 1
    /\ calls = <<>>
    /\ delivered0 = {}
    /\ delivered1 = {}
    /\ sizeAfterP0 = -1
    /\ sorted = <<>>
    /\ result = <<>>
    /\ outcome = "none"
    /\ remoteErrors = {}
    /\ IdleList
    /\ IdleRead
    /\ IdleGlob
    /\ IdlePure
    /\ IdleSearch
    /\ client = GlobClient

NextRepos ==
    \/ searchRepositories
    \/ collectOrgRepositories
    \/ collectOrgRepositoriesError
    \/ collectUserRepositories
    \/ collectUserRepositoriesError
    \/ collectUserRepositoriesRejected
    \/ collectSearchResults
    \/ collectSearchResultsError

SpecRepos == InitRepos /\ [][NextRepos]_vars

(***************************************************************************)
(* searchRepositories against a remote whose search answers every page     *)
(* with the same full page of repositories.  A turn of the loop is two     *)
(* steps: the response arrives and its items are added, then the loop test *)
(* and the next request.  The page number and the request log are kept up  *)
(* to MaxFullPages; the loop itself is not bounded.                        *)
(***************************************************************************)
collectSearchResultsFull ==
    /\ pc = "awaitSearch"
    /\ UNCHANGED otherThanRepos
    /\ \E r \in {AddPage(collected, BulkPage, 1, params)} :
           /\ delivered1' = delivered1 \cup Range(BulkPage)
           /\ collected' = r.coll
           /\ page' = Min(page + 1, MaxFullPages)
           /\ pc' = "searchLoop"
           /\ UNCHANGED <<authToken, large, params, delivered0, sizeAfterP0,
                          remoteErrors, calls, sorted, result, outcome>>

\* while (collected.size < maxIntermediate): the next request, or the end
collectSearchResultsLoop ==
    /\ pc = "searchLoop"
    /\ UNCHANGED otherThanRepos
    /\ UNCHANGED <<authToken, large, params, delivered0, delivered1,
                   sizeAfterP0, remoteErrors>>
    /\ IF Len(collected) < MaxIntermediate(params)
       THEN /\ calls' = IF Len(calls) < MaxFullPages
                        THEN Append(calls, "search") ELSE calls
            /\ pc' = "awaitSearch"
            /\ UNCHANGED <<collected, page, sorted, result, outcome>>
       ELSE Finish(collected, page, calls)

\* a viewer without a token against a large remote
InitEndless ==
    /\ authToken = FALSE
    /\ large = TRUE
    /\ pc = "idle"
    /\ params = [limit |-> 0, offset |-> 0, pattern |-> <<>>,
                 organization |-> <<>>, language |-> <<>>]
    /\ collected = <<>>
    /\ page = 1
    /\ calls = <<>>
    /\ delivered0 = {}
    /\ delivered1 = {}
    /\ sizeAfterP0 = -1
    /\ sorted = <<>>
    /\ result = <<>>
    /\ outcome = "none"
    /\ remoteErrors = {}
    /\ IdleList /\ IdleRead /\ IdleGlob /\ IdlePure
    /\ IdleSearch /\ client = GlobClient

NextEndless ==
    \/ searchRepositories
    \/ collectOrgRepositories
    \/ collectSearchResultsFull
    \/ collectSearchResultsLoop

\* every response arrives: a call that waits goes on
SpecEndless == InitEndless /\ [][NextEndless]_vars /\ WF_vars(NextEndless)

(***************************************************************************)
(* listPath.  A GitHubContentEntry is a record; an optional field is <<>>  *)
(* when absent and a one-element sequence when present.  options.limit and *)
(* options.offset are <<>> when they are not numbers.                      *)
(***************************************************************************)
ContentEntries ==
    { [type |-> "file", name |-> <<"a">>, size |-> <<1>>, sha |-> "s1",
       target |-> <<>>],
      [type |-> "dir", name |-> <<"b">>, size |-> <<0>>, sha |-> "s2",
       target |-> <<>>],
      [type |-> "symlink", name |-> <<"c">>, size |-> <<2>>, sha |-> "s3",
       target |-> <<"a">>],
      [type |-> "submodule", name |-> <<"d">>, size |-> <<0>>, sha |-> "s4",
       target |-> <<>>],
      [type |-> "commit", name |-> <<>>, size |-> <<>>, sha |-> "s5",
       target |-> <<>>] }

\* a directory of more entries than listPath ever returns
BulkListing ==
    [i \in 1..(ListLimitMax + 1) |->
        [type |-> "file", name |-> <<"f">>, size |-> <<i>>, sha |-> "s",
         target |-> <<>>]]

\* the bodies of a contents response: an array, or one object
ListResponses ==
    { [isArray |-> TRUE, body |-> BulkListing] }
    \cup { [isArray |-> TRUE, body |-> a] :
             a \in UNION { [1..n -> ContentEntries] : n \in 0..MaxListLen } }
    \cup { [isArray |-> FALSE, body |-> e] : e \in ContentEntries }

ListArgSet ==
    [rawPath : {".", "src"},
     ref : {<<>>, <<"dev">>},
     limit : {<<>>, <<ListLimitMax + 1>>}
             \cup { <<n>> : n \in (-1)..MaxListLimit },
     offset : {<<>>} \cup { <<n>> : n \in (-1)..MaxListOffset }]

\* entry.name ?? ""
nameOrEmpty(entry) == IF entry.name = <<>> THEN "" ELSE entry.name[1]

formatEntry(entry) ==
    IF entry.type = "file"
    THEN [name |-> nameOrEmpty(entry), type |-> "file", size |-> entry.size,
          sha |-> entry.sha, target |-> <<>>]
    ELSE IF entry.type = "dir"
    THEN [name |-> nameOrEmpty(entry), type |-> "dir", size |-> <<>>,
          sha |-> entry.sha, target |-> <<>>]
    ELSE IF entry.type = "symlink"
    THEN [name |-> nameOrEmpty(entry), type |-> "symlink", size |-> <<>>,
          sha |-> entry.sha, target |-> entry.target]
    ELSE IF entry.type = "submodule"
    THEN [name |-> nameOrEmpty(entry), type |-> "submodule", size |-> <<>>,
          sha |-> entry.sha, target |-> <<>>]
    ELSE [name |-> nameOrEmpty(entry), type |-> "other", size |-> <<>>,
          sha |-> entry.sha, target |-> <<>>]

\* Array.isArray(data) ? data.map(formatEntry) : [formatEntry(data)]
mappedEntries(data) ==
    IF data.isArray
    THEN [i \in 1..Len(data.body) |-> formatEntry(data.body[i])]
    ELSE <<formatEntry(data.body)>>

\* normalizeOffset(options.offset)
listOffset(options) ==
    IF options.offset = <<>> THEN 0 ELSE normalizeOffset(options.offset[1])

sliceEntriesFromStart(mapped, options) ==
    IF options.limit # <<>>
    THEN Slice(mapped, 0,
               normalizeLimit(options.limit[1], ListLimitFallback, ListLimitMax))
    ELSE mapped

\* the local `entries` of listPath
sliceEntries(mapped, options) ==
    IF options.limit # <<>>
    THEN Slice(mapped, listOffset(options),
               listOffset(options)
               + normalizeLimit(options.limit[1], ListLimitFallback, ListLimitMax))
    ELSE IF listOffset(options) > 0
    THEN Slice(mapped, listOffset(options), Len(mapped))
    ELSE mapped

\* the call, up to the contents request
listPath ==
    /\ listPc = "idle"
    /\ UNCHANGED otherThanList
    /\ \E a \in ListArgSet :
        /\ listArgs' = a
        /\ listCalls' = Append(listCalls,
                [path |-> IF a.rawPath = "." THEN "" ELSE a.rawPath,
                 ref |-> a.ref])
    /\ listPc' = "await"
    /\ UNCHANGED <<listData, listResult, listOutcome>>

\* the contents response arrives
listPathReturn ==
    /\ listPc = "await"
    /\ UNCHANGED otherThanList
    /\ \E data \in ListResponses :
        /\ listData' = data
        /\ listResult' = [path |-> listArgs.rawPath, ref |-> listArgs.ref,
                          entries |-> sliceEntries(mappedEntries(data), listArgs)]
    /\ listPc' = "done"
    /\ listOutcome' = "ok"
    /\ UNCHANGED <<listArgs, listCalls>>

\* ghFetch throws on a non-success status
listPathError ==
    /\ listPc = "await"
    /\ UNCHANGED otherThanList
    /\ listPc' = "done"
    /\ listOutcome' = "error"
    /\ UNCHANGED <<listArgs, listCalls, listData, listResult>>

InitList ==
    /\ IdleRepos /\ IdleList /\ IdleRead /\ IdleGlob /\ IdlePure
    /\ IdleSearch /\ client = GlobClient

NextList ==
    \/ listPath
    \/ listPathReturn
    \/ listPathError

SpecList == InitList /\ [][NextList]_vars

(***************************************************************************)
(* readFile.  A byte string is a sequence of tokens [c, n]: the character  *)
(* c repeated n times, so that a file larger than the size guard is a      *)
(* short sequence.  The remote encodes a file in base64; its long run of   *)
(* "xxx" groups is kept as the number of "eHh4" groups of the content.     *)
(***************************************************************************)
Base64Alphabet ==
    << "A", "B", "C", "D", "E", "F", "G", "H", "I", "J", "K", "L", "M",
       "N", "O", "P", "Q", "R", "S", "T", "U", "V", "W", "X", "Y", "Z",
       "a", "b", "c", "d", "e", "f", "g", "h", "i", "j", "k", "l", "m",
       "n", "o", "p", "q", "r", "s", "t", "u", "v", "w", "x", "y", "z",
       "0", "1", "2", "3", "4", "5", "6", "7", "8", "9", "+", "/" >>

\* the bytes of the characters remote files are made of
CharCodes == { <<"a", 97>>, <<"x", 120>>, <<"\n", 10>>, <<"\r", 13>>,
               <<"A", 65>> }

byteOf(ch) == (CHOOSE e \in CharCodes : e[1] = ch)[2]

charOf(byte) ==
    IF \E e \in CharCodes : e[2] = byte
    THEN (CHOOSE e \in CharCodes : e[2] = byte)[1]
    ELSE "?"

sextetOf(ch) == (CHOOSE i \in 1..64 : Base64Alphabet[i] = ch) - 1

Pow(b, e) == IF e = 0 THEN 1 ELSE IF e = 1 THEN b ELSE IF e = 2 THEN b * b
             ELSE b * b * b

\* the remote's base64 text of a sequence of characters
base64Encode(chars) ==
    LET len == Len(chars)
        byteAt(i) == IF i <= len THEN byteOf(chars[i]) ELSE 0
        group(g) == byteAt(3 * g + 1) * 65536 + byteAt(3 * g + 2) * 256
                    + byteAt(3 * g + 3)
    IN  [j \in 1..(4 * ((len + 2) \div 3)) |->
            LET g == (j - 1) \div 4
                q == (j - 1) % 4
            IN  IF q >= 2 /\ 3 * g + q > len THEN "="
                ELSE Base64Alphabet[((group(g) \div Pow(64, 3 - q)) % 64) + 1]]

\* Buffer.from(text, "base64") of a text without a run
base64Decode(text) ==
    LET clean == SelectSeq(text, LAMBDA ch : ch # "=")
        sextetAt(i) == IF i <= Len(clean) THEN sextetOf(clean[i]) ELSE 0
        group(g) == sextetAt(4 * g + 1) * 262144 + sextetAt(4 * g + 2) * 4096
                    + sextetAt(4 * g + 3) * 64 + sextetAt(4 * g + 4)
    IN  [i \in 1..((Len(clean) * 3) \div 4) |->
            (group((i - 1) \div 3) \div Pow(256, 2 - ((i - 1) % 3))) % 256]

\* a remote file: `run` groups "xxx", then the characters of `tail`
BigRun == MaxFileBytes \div 3

SmallTexts == UNION { [1..n -> {"a", "\n", "\r"}] : n \in 0..MaxTextLen }

TallText == [i \in 1..TallLines |-> IF i = TallLines THEN "a" ELSE "\n"]

RemoteFiles ==
    { [run |-> 0, tail |-> t] : t \in SmallTexts \cup {TallText} }
    \cup { [run |-> r, tail |-> t] :
             r \in {BigRun, BigRun + 1},
             t \in {<<>>, <<"\n", "a">>, <<"a", "\n", "a">>} }

\* the content field of the contents response for a file
contentOf(file) == [run |-> file.run, text |-> base64Encode(file.tail)]

\* the body of the contents response for a file, and for a directory path
ReadResponses(file) ==
    { [type |-> "file", encoding |-> enc, content |-> contentOf(file)] :
        enc \in {<<>>, <<"base64">>} }
    \cup { [type |-> "dir", encoding |-> <<>>, content |-> contentOf(file)] }

ReadArgSet ==
    [filePath : {"f"},
     ref : {<<>>, <<"dev">>},
     range : {<<>>}
             \cup { <<[start |-> a, end |-> b]>> :
                      a \in (0..MaxRangeStart) \cup {TallLines},
                      b \in (0..MaxRangeEnd) \cup {TallLines} },
     includeLineNumbers : BOOLEAN]

\* Buffer.from(data.content, encoding): tokens [b, n], the byte b n times
bufferFrom(content, encoding) ==
    LET bytes == base64Decode(content.text)
    IN  (IF content.run > 0 THEN <<[b |-> 120, n |-> 3 * content.run]>> ELSE <<>>)
        \o [i \in 1..Len(bytes) |-> [b |-> bytes[i], n |-> 1]]

RECURSIVE bufferLengthFrom(_, _)
bufferLengthFrom(buffer, i) ==
    IF i > Len(buffer) THEN 0 ELSE buffer[i].n + bufferLengthFrom(buffer, i + 1)

\* buffer.length
bufferLength(buffer) == bufferLengthFrom(buffer, 1)

\* buffer.toString("utf8"): tokens [c, n]
toStringUtf8(buffer) ==
    [i \in 1..Len(buffer) |-> [c |-> charOf(buffer[i].b), n |-> buffer[i].n]]

\* text.replace(/\r\n/g, "\n"), from token i on
RECURSIVE replaceCRLF(_, _)
replaceCRLF(text, i) ==
    IF i > Len(text) THEN <<>>
    ELSE IF text[i].c = "\r" /\ i < Len(text) /\ text[i + 1].c = "\n"
    THEN replaceCRLF(text, i + 1)
    ELSE <<text[i]>> \o replaceCRLF(text, i + 1)

\* text.split("\n"), from token i on, cur being the line under way
RECURSIVE splitLines(_, _, _)
splitLines(text, i, cur) ==
    IF i > Len(text) THEN <<cur>>
    ELSE IF text[i].c = "\n" THEN <<cur>> \o splitLines(text, i + 1, <<>>)
    ELSE splitLines(text, i + 1, Append(cur, text[i]))

extractRangeZeroBased(lines, range) ==
    LET count == IF range.end < range.start THEN 0
                 ELSE Max(0, Min(range.end, Len(lines) - 1) - range.start + 1)
    IN  [k \in 1..count |-> lines[range.start + k]]

\* the loop runs lineNumber from range.start to range.end and breaks at the
\* first index >= lines.length; lines[index] ?? "" is "" for an index < 0
extractRange(lines, range) ==
    LET count == IF range.end < range.start THEN 0
                 ELSE Max(0, Min(range.end, Len(lines)) - range.start + 1)
    IN  [k \in 1..count |->
            IF range.start + k - 1 >= 1 THEN lines[range.start + k - 1]
            ELSE <<>>]

\* chars.padStart(width, " ")
padStart(chars, width) ==
    [i \in 1..Max(0, width - Len(chars)) |-> " "] \o chars

asTokens(chars) == [i \in 1..Len(chars) |-> [c |-> chars[i], n |-> 1]]

addLineNumbers(lines, start) ==
    [k \in 1..Len(lines) |->
        asTokens(padStart(Digits(start + k - 1), LineNumberWidth) \o <<" ">>)
        \o lines[k]]

tooLargeInclusive(options, buffer) ==
    options.range = <<>> /\ bufferLength(buffer) >= MaxFileBytes

\* the size guard of readFile
tooLarge(options, buffer) ==
    options.range = <<>> /\ bufferLength(buffer) > MaxFileBytes

\* the lines readFile returns for the decoded buffer
outputLines(options, buffer) ==
    LET lines == splitLines(replaceCRLF(toStringUtf8(buffer), 1), 1, <<>>)
        selected == IF options.range # <<>>
                    THEN extractRange(lines, options.range[1]) ELSE lines
        lineOffset == IF options.range # <<>> THEN options.range[1].start ELSE 1
    IN  IF options.includeLineNumbers
        THEN addLineNumbers(selected, lineOffset) ELSE selected

\* the call, up to the contents request
readFile ==
    /\ readPc = "idle"
    /\ UNCHANGED otherThanRead
    /\ \E a \in ReadArgSet :
        /\ readArgs' = a
        /\ readCalls' = Append(readCalls, [path |-> a.filePath, ref |-> a.ref])
    /\ readPc' = "await"
    /\ UNCHANGED <<readSource, readData, readResult, readOutcome>>

\* the contents response arrives
readFileReturn ==
    /\ readPc = "await"
    /\ UNCHANGED otherThanRead
    /\ \E file \in RemoteFiles : \E data \in ReadResponses(file) :
        LET buffer == bufferFrom(data.content, IF data.encoding = <<>>
                                               THEN "base64"
                                               ELSE data.encoding[1])
        IN  /\ readSource' = file
            /\ readData' = data
            /\ IF (data.content.run = 0 /\ data.content.text = <<>>)
                  \/ data.type # "file"
               THEN readOutcome' = "notFile" /\ UNCHANGED readResult
               ELSE IF tooLarge(readArgs, buffer)
               THEN readOutcome' = "tooLarge" /\ UNCHANGED readResult
               ELSE /\ readOutcome' = "ok"
                    /\ readResult' = [path |-> readArgs.filePath,
                                      ref |-> readArgs.ref,
                                      range |-> readArgs.range,
                                      lines |-> outputLines(readArgs, buffer)]
    /\ readPc' = "done"
    /\ UNCHANGED <<readArgs, readCalls>>

\* ghFetch throws on a non-success status
readFileError ==
    /\ readPc = "await"
    /\ UNCHANGED otherThanRead
    /\ readPc' = "done"
    /\ readOutcome' = "http"
    /\ UNCHANGED <<readArgs, readCalls, readSource, readData, readResult>>

InitRead ==
    /\ IdleRepos /\ IdleList /\ IdleRead /\ IdleGlob /\ IdlePure
    /\ IdleSearch /\ client = GlobClient

NextRead ==
    \/ readFile
    \/ readFileReturn
    \/ readFileError

SpecRead == InitRead /\ [][NextRead]_vars

(***************************************************************************)
(* globFiles.  Owner, repository, ref, pattern and the paths of a tree are *)
(* sequences of characters; the cache key is their concatenation.  The     *)
(* calls on a viewer follow one another, each awaited before the next.     *)
(***************************************************************************)
RepoA == [owner |-> <<"A">>, repo |-> <<"r">>]
RepoB == [owner |-> <<"B">>, repo |-> <<"r">>]

PatternTs == <<"*", ".", "t", "s">>
PatternDeepTs == <<"*", "*", "/", "*", ".", "t", "s">>

GlobArgSet ==
    { [repo |-> RepoA, pattern |-> PatternTs, ref |-> <<>>],
      [repo |-> RepoA, pattern |-> PatternTs, ref |-> << <<"m">> >>],
      [repo |-> RepoA, pattern |-> PatternDeepTs, ref |-> << <<"m">> >>],
      [repo |-> RepoA, pattern |-> <<"x">>, ref |-> << <<"m", ":", "x">> >>],
      [repo |-> RepoA, pattern |-> <<"x", ":", "x">>, ref |-> << <<"m">> >>],
      [repo |-> RepoB, pattern |-> PatternTs, ref |-> << <<"m">> >>] }

\* the tree field of a tree response
Trees ==
    { <<>>,
      << [path |-> <<"a", ".", "t", "s">>, type |-> "blob"],
         [path |-> <<"s", "r", "c">>, type |-> "tree"],
         [path |-> <<"s", "r", "c", "/", "b", ".", "t", "s">>, type |-> "blob"],
         [path |-> <<"d", ".", "t", "s">>, type |-> "tree"],
         [path |-> <<"x", ":", "x">>, type |-> "blob"] >>,
      << [path |-> <<"x">>, type |-> "blob"],
         [path |-> <<".", "c", ".", "t", "s">>, type |-> "blob"] >> }

\* the bodies of a tree response; tree and truncated may be missing
TreeBodies ==
    [tree : {<<>>} \cup { <<t>> : t \in Trees },
     truncated : {<<>>, <<TRUE>>, <<FALSE>>}]

\* the arguments and the tree responses of a client: the one that also
\* searches makes its globFiles calls on one repository and one pattern
GlobArgsOf(inputs) ==
    IF inputs = "probe"
    THEN { [repo |-> RepoA, pattern |-> PatternTs, ref |-> <<>>],
           [repo |-> RepoA, pattern |-> PatternTs, ref |-> << <<"m">> >>] }
    ELSE GlobArgSet

TreeBodiesOf(inputs) ==
    IF inputs = "probe"
    THEN { body \in TreeBodies :
             /\ body.truncated = <<>>
             /\ body.tree # <<>> => Len(body.tree[1]) = 2 }
    ELSE TreeBodies

\* the default_branch field of a repository response, <<>> when missing
DefaultBranches == { <<>>, << <<"m">> >>, << <<"d">> >> }

\* string.split("/"), from character i on, cur being the segment under way
RECURSIVE splitSegments(_, _, _)
splitSegments(chars, i, cur) ==
    IF i > Len(chars) THEN <<cur>>
    ELSE IF chars[i] = "/" THEN <<cur>> \o splitSegments(chars, i + 1, <<>>)
    ELSE splitSegments(chars, i + 1, Append(cur, chars[i]))

\* one path segment against one pattern segment: * any characters, ? one
RECURSIVE matchSegment(_, _, _, _)
matchSegment(seg, pat, i, j) ==
    IF j > Len(pat) THEN i > Len(seg)
    ELSE IF pat[j] = "*"
    THEN \/ matchSegment(seg, pat, i, j + 1)
         \/ (i <= Len(seg) /\ matchSegment(seg, pat, i + 1, j))
    ELSE /\ i <= Len(seg)
         /\ (pat[j] = "?" \/ pat[j] = seg[i])
         /\ matchSegment(seg, pat, i + 1, j + 1)

\* the segments of a path against those of a pattern: ** any directories
RECURSIVE matchSegments(_, _, _, _)
matchSegments(segs, pats, i, j) ==
    IF j > Len(pats) THEN i > Len(segs)
    ELSE IF pats[j] = <<"*", "*">>
    THEN \/ matchSegments(segs, pats, i, j + 1)
         \/ (i <= Len(segs) /\ matchSegments(segs, pats, i + 1, j))
    ELSE /\ i <= Len(segs)
         /\ matchSegment(segs[i], pats[j], 1, 1)
         /\ matchSegments(segs, pats, i + 1, j + 1)

\* minimatch(path, pattern, { dot: true }) for patterns of literal
\* characters, *, ? and **
minimatch(path, pattern) ==
    matchSegments(splitSegments(path, 1, <<>>), splitSegments(pattern, 1, <<>>),
                  1, 1)

\* the loop over tree.tree: the paths of the blobs that match, in tree order
RECURSIVE globMatches(_, _, _)
globMatches(tree, pattern, i) ==
    IF i > Len(tree) THEN <<>>
    ELSE (IF tree[i].type = "blob" /\ minimatch(tree[i].path, pattern)
          THEN <<tree[i].path>> ELSE <<>>)
         \o globMatches(tree, pattern, i + 1)

\* `${repo.owner}/${repo.repo}`
repoKey(repo) == repo.owner \o <<"/">> \o repo.repo

\* `${repo.owner}/${repo.repo}@${ref}:${pattern}`
cacheKey(repo, ref, pattern) ==
    repo.owner \o <<"/">> \o repo.repo \o <<"@">> \o ref \o <<":">> \o pattern

\* Map.prototype.set
MapSet(map, key, value) ==
    [k \in (DOMAIN map) \cup {key} |-> IF k = key THEN value ELSE map[k]]

cacheEntryNeverTruncated(body, pattern) ==
    [matches |-> globMatches(body.tree[1], pattern, 1), truncated |-> FALSE]

\* the entry globFiles stores: matches and Boolean(tree.truncated)
cacheEntry(body, pattern) ==
    [matches |-> globMatches(body.tree[1], pattern, 1),
     truncated |-> (body.truncated = <<TRUE>>)]

cacheMissAlways(cache, key) == TRUE

\* !treeCache.has(cacheKey)
cacheMiss(cache, key) == key \notin DOMAIN cache

\* what a call is about once its ref is known
Triple(repo, ref, pattern) ==
    [owner |-> repo.owner, repo |-> repo.repo, ref |-> ref, pattern |-> pattern]

sameMatches(cached) == [items |-> cached.matches, shared |-> TRUE]

\* [...cached.matches]: a new array with the items of the cached one
copyOfMatches(cached) == [items |-> cached.matches, shared |-> FALSE]

\* the end of globFiles: the result is read from the cache
GlobReturn(cache, ref) ==
    LET cached == cache[cacheKey(globArgs'.repo, ref, globArgs'.pattern)]
        triple == Triple(globArgs'.repo, ref, globArgs'.pattern)
    IN  /\ callerList' = copyOfMatches(cached)
        /\ globResult' = [pattern |-> globArgs'.pattern, ref |-> ref,
                          matches |-> callerList'.items,
                          truncated |-> cached.truncated]
        /\ globOutcome' = "ok"
        /\ globPc' = "done"
        /\ firstResult' = IF triple \in DOMAIN firstResult THEN firstResult
                          ELSE MapSet(firstResult, triple,
                                      [matches |-> cached.matches,
                                       truncated |-> cached.truncated])

GlobFail(kind) ==
    /\ globOutcome' = kind
    /\ globPc' = "done"
    /\ UNCHANGED <<globResult, firstResult, callerList>>

\* globFiles once `ref` is known: the cache test, then the tree request
AfterRef(ref, log) ==
    /\ globRef' = <<ref>>
    /\ UNCHANGED <<treeCache, treeSource, globData>>
    /\ IF cacheMiss(treeCache, cacheKey(globArgs'.repo, ref, globArgs'.pattern))
       THEN /\ globCalls' = Append(log, [kind |-> "tree",
                                         repo |-> globArgs'.repo, ref |-> ref])
            /\ globPc' = "awaitTree"
            /\ globFetched' = TRUE
            /\ globOutcome' = "none"
            /\ globResult' = <<>>
            /\ UNCHANGED <<firstResult, callerList>>
       ELSE /\ globCalls' = log
            /\ globFetched' = FALSE
            /\ GlobReturn(treeCache, ref)

\* the call, up to its first request or to its return from the cache
globFiles ==
    /\ globPc \in {"idle", "done"}
    /\ searchPc \in {"idle", "done"}
    /\ globStarted + searchStarted < client.maxCalls
    /\ UNCHANGED <<otherThanGlob, mutatedFor>>
    /\ globStarted' = globStarted + 1
    /\ globKnown' = DOMAIN firstResult
    /\ \E a \in GlobArgsOf(client.inputs) :
        /\ globArgs' = a
        /\ IF a.ref # <<>>
           THEN UNCHANGED repoDefaults /\ AfterRef(a.ref[1], globCalls)
           ELSE IF repoKey(a.repo) \in DOMAIN repoDefaults
           THEN /\ UNCHANGED repoDefaults
                /\ AfterRef(repoDefaults[repoKey(a.repo)], globCalls)
           ELSE /\ globCalls' = Append(globCalls,
                                       [kind |-> "repo", repo |-> a.repo,
                                        ref |-> <<>>])
                /\ globPc' = "awaitDefault"
                /\ globRef' = <<>>
                /\ globFetched' = FALSE
                /\ globOutcome' = "none"
                /\ globResult' = <<>>
                /\ UNCHANGED <<treeCache, repoDefaults, treeSource, globData,
                               firstResult, callerList>>

\* getDefaultBranch: the repository response arrives
getDefaultBranch ==
    /\ globPc = "awaitDefault"
    /\ UNCHANGED <<otherThanGlob, mutatedFor>>
    /\ UNCHANGED <<globArgs, globStarted, globKnown>>
    /\ \E branch \in DefaultBranches :
        IF branch = <<>>
        THEN /\ GlobFail("noDefault")
             /\ UNCHANGED <<treeCache, repoDefaults, globRef, globCalls,
                            globData, treeSource, globFetched>>
        ELSE /\ repoDefaults' = MapSet(repoDefaults, repoKey(globArgs.repo),
                                       branch[1])
             /\ AfterRef(branch[1], globCalls)

getDefaultBranchError ==
    /\ globPc = "awaitDefault"
    /\ UNCHANGED <<otherThanGlob, mutatedFor>>
    /\ GlobFail("http")
    /\ UNCHANGED <<treeCache, repoDefaults, globArgs, globRef, globCalls,
                   globData, globStarted, treeSource, globKnown, globFetched>>

\* fetchTree: the tree response arrives; globFiles filters and caches it
fetchTree ==
    /\ globPc = "awaitTree"
    /\ UNCHANGED <<otherThanGlob, mutatedFor>>
    /\ UNCHANGED <<repoDefaults, globArgs, globRef, globCalls, globStarted,
                   globKnown, globFetched>>
    /\ \E body \in TreeBodiesOf(client.inputs) :
        /\ globData' = body
        /\ IF body.tree = <<>>
           THEN GlobFail("noTree") /\ UNCHANGED <<treeCache, treeSource>>
           ELSE LET key == cacheKey(globArgs.repo, globRef[1], globArgs.pattern)
                    cache == MapSet(treeCache, key,
                                    cacheEntry(body, globArgs.pattern))
                IN  /\ treeCache' = cache
                    /\ treeSource' =
                          MapSet(treeSource, key,
                                 [body |-> body,
                                  triple |-> Triple(globArgs.repo, globRef[1],
                                                    globArgs.pattern)])
                    /\ GlobReturn(cache, globRef[1])

fetchTreeError ==
    /\ globPc = "awaitTree"
    /\ UNCHANGED <<otherThanGlob, mutatedFor>>
    /\ GlobFail("http")
    /\ UNCHANGED <<treeCache, repoDefaults, globArgs, globRef, globCalls,
                   globData, globStarted, treeSource, globKnown, globFetched>>

(***************************************************************************)
(* Two callers of globFiles on one viewer; neither awaits the other.  A    *)
(* step runs a call from one await to the next: globFiles awaits           *)
(* getDefaultBranch when no ref is given, also when the default branch is  *)
(* known, and it awaits fetchTree.                                         *)
(***************************************************************************)
\* the variables of the awaited calls, which these calls leave alone
awaitedCallVars ==
    <<globPc, globArgs, globRef, globData, globResult, globOutcome,
      globStarted, treeSource, firstResult, globKnown, globFetched, callerList,
      mutatedFor>>

ConcurrentArgSet ==
    { [repo |-> RepoA, pattern |-> PatternTs, ref |-> <<>>],
      [repo |-> RepoA, pattern |-> PatternTs, ref |-> << <<"m">> >>],
      [repo |-> RepoA, pattern |-> PatternDeepTs, ref |-> << <<"m">> >>] }

\* the end of a call: the result is read from the cache
returnedFrom(cache, a, ref) ==
    LET cached == cache[cacheKey(a.repo, ref, a.pattern)]
    IN  [pc |-> "done", args |-> a, ref |-> <<ref>>,
         result |-> <<[pattern |-> a.pattern, ref |-> ref,
                       matches |-> cached.matches,
                       truncated |-> cached.truncated]>>]

\* getDefaultBranch has returned `ref` to the call of caller c, which has
\* not gone on yet
concurrentHasRef(c, a, ref) ==
    [inflight EXCEPT ![c] = [pc |-> "haveRef", args |-> a, ref |-> <<ref>>,
                             result |-> <<>>]]

\* globFiles of caller c once `ref` is known: the cache test, then the
\* tree request
concurrentAfterRef(c, a, ref) ==
    /\ UNCHANGED treeCache
    /\ IF cacheMiss(treeCache, cacheKey(a.repo, ref, a.pattern))
       THEN /\ globCalls' = Append(globCalls, [kind |-> "tree",
                                               repo |-> a.repo, ref |-> ref])
            /\ inflight' = [inflight EXCEPT ![c] =
                               [pc |-> "awaitTree", args |-> a,
                                ref |-> <<ref>>, result |-> <<>>]]
       ELSE /\ UNCHANGED globCalls
            /\ inflight' = [inflight EXCEPT ![c] =
                               returnedFrom(treeCache, a, ref)]

\* caller c calls globFiles: up to its first await.  With a ref the call
\* goes to the cache test at once; without one it awaits getDefaultBranch,
\* which has returned the known default branch or has made its request
concurrentGlobFiles(c) ==
    /\ inflight[c].pc = "idle"
    /\ UNCHANGED <<reposVars, listVars, readVars, pureVars, searchVars,
                   awaitedCallVars>>
    /\ \E a \in ConcurrentArgSet :
        IF a.ref # <<>>
        THEN UNCHANGED repoDefaults /\ concurrentAfterRef(c, a, a.ref[1])
        ELSE IF repoKey(a.repo) \in DOMAIN repoDefaults
        THEN /\ inflight' =
                   concurrentHasRef(c, a, repoDefaults[repoKey(a.repo)])
             /\ UNCHANGED <<treeCache, repoDefaults, globCalls>>
        ELSE /\ globCalls' = Append(globCalls, [kind |-> "repo",
                                                repo |-> a.repo, ref |-> <<>>])
             /\ inflight' = [inflight EXCEPT ![c] =
                                [pc |-> "awaitDefault", args |-> a,
                                 ref |-> <<>>, result |-> <<>>]]
             /\ UNCHANGED <<treeCache, repoDefaults>>

\* the repository response of caller c arrives: getDefaultBranch sets
\* repoDefaults and returns
concurrentDefaultBranch(c) ==
    /\ inflight[c].pc = "awaitDefault"
    /\ UNCHANGED <<reposVars, listVars, readVars, pureVars, searchVars,
                   awaitedCallVars>>
    /\ \E branch \in DefaultBranches :
        IF branch = <<>>
        THEN /\ inflight' = [inflight EXCEPT ![c].pc = "failed"]
             /\ UNCHANGED <<treeCache, repoDefaults, globCalls>>
        ELSE /\ repoDefaults' = MapSet(repoDefaults,
                                       repoKey(inflight[c].args.repo),
                                       branch[1])
             /\ inflight' = concurrentHasRef(c, inflight[c].args, branch[1])
             /\ UNCHANGED <<treeCache, globCalls>>

\* the call of caller c goes on after `await getDefaultBranch(repo)`: the
\* cache test, then the tree request or the return
concurrentResume(c) ==
    /\ inflight[c].pc = "haveRef"
    /\ UNCHANGED <<reposVars, listVars, readVars, pureVars, searchVars,
                   awaitedCallVars>>
    /\ UNCHANGED repoDefaults
    /\ concurrentAfterRef(c, inflight[c].args, inflight[c].ref[1])

\* the tree response of caller c arrives; it is filtered and cached
concurrentFetchTree(c) ==
    /\ inflight[c].pc = "awaitTree"
    /\ UNCHANGED <<reposVars, listVars, readVars, pureVars, searchVars,
                   awaitedCallVars>>
    /\ UNCHANGED <<repoDefaults, globCalls>>
    /\ \E body \in TreeBodiesOf("probe") :
        IF body.tree = <<>>
        THEN /\ inflight' = [inflight EXCEPT ![c].pc = "failed"]
             /\ UNCHANGED treeCache
        ELSE LET a == inflight[c].args
                 ref == inflight[c].ref[1]
                 cache == MapSet(treeCache, cacheKey(a.repo, ref, a.pattern),
                                 cacheEntry(body, a.pattern))
             IN  /\ treeCache' = cache
                 /\ inflight' = [inflight EXCEPT ![c] =
                                    returnedFrom(cache, a, ref)]

InitConcurrent ==
    /\ IdleRepos /\ IdleList /\ IdleRead /\ IdleGlob /\ IdlePure
    /\ IdleSearch /\ client = GlobClient

NextConcurrent ==
    \E c \in Callers :
        \/ concurrentGlobFiles(c)
        \/ concurrentDefaultBranch(c)
        \/ concurrentResume(c)
        \/ concurrentFetchTree(c)

SpecConcurrent == InitConcurrent /\ [][NextConcurrent]_vars

InitGlob ==
    /\ IdleRepos /\ IdleList /\ IdleRead /\ IdleGlob /\ IdlePure
    /\ IdleSearch /\ client = GlobClient

NextGlob ==
    \/ globFiles
    \/ getDefaultBranch
    \/ getDefaultBranchError
    \/ fetchTree
    \/ fetchTreeError

SpecGlob == InitGlob /\ [][NextGlob]_vars

\* what a caller can do to the array it was given: add, remove, replace
Mutations(items) ==
    {Append(items, <<"z">>)}
    \cup (IF items = <<>> THEN {}
          ELSE {Tail(items), [items EXCEPT ![1] = <<"z">>]})

\* the caller mutates result.matches of the call that has just returned;
\* the cache entry changes with it if it holds that very array
mutateMatches ==
    /\ globPc = "done" /\ globOutcome = "ok"
    /\ globStarted < MaxGlobCalls
    /\ Triple(globArgs.repo, globRef[1], globArgs.pattern) \notin mutatedFor
    /\ UNCHANGED otherThanGlob
    /\ \E items \in Mutations(callerList.items) :
        /\ callerList' = [callerList EXCEPT !.items = items]
        /\ treeCache' =
              IF callerList.shared
              THEN [treeCache EXCEPT
                      ![cacheKey(globArgs.repo, globRef[1], globArgs.pattern)]
                          .matches = items]
              ELSE treeCache
    /\ mutatedFor' = mutatedFor
                     \cup {Triple(globArgs.repo, globRef[1], globArgs.pattern)}
    /\ UNCHANGED <<repoDefaults, globPc, globArgs, globRef, globCalls, globData,
                   globResult, globOutcome, globStarted, treeSource,
                   firstResult, globKnown, globFetched>>

NextGlobCaller ==
    \/ globFiles
    \/ getDefaultBranch
    \/ getDefaultBranchError
    \/ fetchTree
    \/ fetchTreeError
    \/ mutateMatches

\* globFiles with a caller that mutates the lists it is given
SpecGlobCaller == InitGlob /\ [][NextGlobCaller]_vars

(***************************************************************************)
(* parseRepo.                                                              *)
(***************************************************************************)
SlugChars == {"a", "b", "/", " "}

\* the slugs given to parseRepo: every string over SlugChars of up to
\* MaxSlugLen characters
Slugs == UNION { [1..n -> SlugChars] : n \in 0..MaxSlugLen }

parseRepoFirstTwo(s) ==
    LET parts == splitSegments(s, 1, <<>>)
    IN  IF Len(parts) < 2 \/ parts[1] = <<>> \/ parts[2] = <<>>
        THEN [ok |-> FALSE]
        ELSE [ok |-> TRUE, owner |-> parts[1], repo |-> parts[2]]

\* [ok |-> FALSE] stands for the ViewerError thrown
parseRepo(s) ==
    LET parts == splitSegments(s, 1, <<>>)
    IN  IF Len(parts) # 2 \/ parts[1] = <<>> \/ parts[2] = <<>>
        THEN [ok |-> FALSE]
        ELSE [ok |-> TRUE, owner |-> parts[1], repo |-> parts[2]]

callParseRepo ==
    /\ parsed = <<>>
    /\ parsed' = <<parseRepo(slug)>>
    /\ UNCHANGED <<slug, snippetArgs, snippets, pureArgs, pureResult>>
    /\ UNCHANGED otherThanPure

InitParse ==
    /\ IdleRepos /\ IdleList /\ IdleRead /\ IdleGlob
    /\ IdleSearch /\ client = GlobClient
    /\ slug \in Slugs
    /\ parsed = <<>>
    /\ snippetArgs = <<>>
    /\ snippets = <<>>
    /\ pureArgs = <<>>
    /\ pureResult = <<>>

NextParse == callParseRepo

SpecParse == InitParse /\ [][NextParse]_vars

(***************************************************************************)
(* The pattern filter of addRepository, on payloads whose name and         *)
(* full_name are any strings the remote may send.                          *)
(***************************************************************************)
\* full_name, name (<<>>: the field is missing) and the pattern of the call
CandidateArgSet ==
    [full_name : { <<"A", "/", "x">>, <<"b", "/", "y">>,
                   <<"A", "/", "x", "y">> },
     name : { <<>>, << <<"x">> >>, << <<"y">> >>, << <<"x", "y">> >>,
              << <<"X", " ", "y">> >> },
     pattern : { <<"x">>, <<"a", " ", "y">>, <<"a", " ", " ", "x">>,
                 <<"Y">>, <<" ", "x", " ">>, <<"z">>, <<"a", "/", "x">>,
                 <<"b", " ", "x">> }]

\* mapRepoSummary: name = repo.name ?? fullName
summaryName(repo) == IF repo.name = <<>> THEN repo.full_name ELSE repo.name[1]

\* addRepository up to the pattern test, for a candidate that passes the
\* organization test: TRUE when the candidate goes on to the language test
passesPattern(repo, pattern) ==
    ~patternRejects(repo.full_name, summaryName(repo), trim(pattern))

callPassesPattern ==
    /\ pureResult = <<>>
    /\ pureArgs # <<>>
    /\ pureResult' = <<passesPattern(pureArgs, pureArgs.pattern)>>
    /\ UNCHANGED <<slug, parsed, snippetArgs, snippets, pureArgs>>
    /\ UNCHANGED otherThanPure

InitFilter ==
    /\ IdleRepos /\ IdleList /\ IdleRead /\ IdleGlob
    /\ IdleSearch /\ client = GlobClient
    /\ slug = <<>>
    /\ parsed = <<>>
    /\ snippetArgs = <<>>
    /\ snippets = <<>>
    /\ pureArgs \in CandidateArgSet
    /\ pureResult = <<>>

NextFilter == callPassesPattern

SpecFilter == InitFilter /\ [][NextFilter]_vars

(***************************************************************************)
(* searchRepositories against a remote whose data do not change: a client  *)
(* with a token makes three calls that page through one result, each       *)
(* awaited before the next.  pureArgs holds the remote and the page size,  *)
(* pureResult what the calls have returned so far.                         *)
(***************************************************************************)
PagingSizes == {1, 2, (RepoLimitMax \div 2) + 1}

\* the pages a channel of a fixed remote holds, each full name once
FixedPages(P, maxLen) ==
    LET small == { pg \in UNION { [1..n -> P] : n \in 0..maxLen } :
                     Consistent(pg, {}) }
    IN  { <<pg>> : pg \in small \ {<<>>} }
        \cup { <<BulkPage, pg>> : pg \in small } \cup { <<>> }

\* the remote (the pages of the listing and those of the search, in the
\* order of their links and page numbers), the page size k and the filters
PagingArgSet ==
    [listing : FixedPages([fn : Names, stars : Stars, lang : { <<"T", "S">> },
                           score : { <<>> }], MaxPageLen),
     search : { pages \in FixedPages([fn : Names, stars : {MaxStars},
                                      lang : { <<"T", "S">> },
                                      score : { <<>> }], 1) :
                  Len(pages) <= 1 },
     k : PagingSizes,
     pattern : { <<>>, <<"x">> }]

PagingParams(args, offset, limit) ==
    [limit |-> limit, offset |-> offset, pattern |-> args.pattern,
     organization |-> <<>>, language |-> <<>>]

\* the calls (0, k), (k, k) and (0, 2k) of the client
PagingCalls(args) ==
    << PagingParams(args, 0, args.k), PagingParams(args, args.k, args.k),
       PagingParams(args, 0, 2 * args.k) >>

\* a listing of n repositories in pages of SearchPageSize
listingOf(n) ==
    [j \in 1..((n + SearchPageSize - 1) \div SearchPageSize) |->
        [i \in 1..Min(SearchPageSize, n - (j - 1) * SearchPageSize) |->
            [fn |-> NumNames + (j - 1) * SearchPageSize + i, stars |-> 0,
             lang |-> <<"T", "S">>, score |-> <<>>]]]

\* the remote of the calls: the pages of the user listing and those of the
\* search, as given or, for a remote that holds `held` repositories, a
\* listing of these and a search without hits
FixedRemote ==
    IF "held" \in DOMAIN pureArgs
    THEN [listing |-> listingOf(pureArgs.held), search |-> <<>>]
    ELSE [listing |-> pureArgs.listing, search |-> pureArgs.search]

\* searchRepositories with the parameters p, no organization among them,
\* on a viewer with a token: up to the request of the first page of the
\* user listing
beginSearchRepositories(p) ==
    /\ params' = p
    /\ collected' = <<>>
    /\ page' = 1
    /\ calls' = <<"user">>
    /\ pc' = "awaitUser"
    /\ delivered0' = {}
    /\ delivered1' = {}
    /\ sizeAfterP0' = -1
    /\ sorted' = <<>>
    /\ result' = <<>>
    /\ outcome' = "none"
    /\ UNCHANGED <<authToken, large, remoteErrors>>

\* the client makes its next call
callPaging ==
    /\ pc = "idle"
    /\ Len(pureResult) < Len(PagingCalls(pureArgs))
    /\ beginSearchRepositories(PagingCalls(pureArgs)[Len(pureResult) + 1])
    /\ UNCHANGED otherThanRepos

\* collectUserRepositories: the page of the listing that was asked for
\* arrives, with a next link unless it is the last; a remote without
\* repositories answers with an empty page
fixedUserPage ==
    /\ pc = "awaitUser"
    /\ UNCHANGED otherThanRepos
    /\ LET pages == FixedRemote.listing
           n == P0Requests
       IN  P0Page("user", IF n <= Len(pages) THEN pages[n] ELSE <<>>,
                  n < Len(pages))

\* collectSearchResults: the page of the search that was asked for arrives,
\* an empty one past the last
fixedSearchPage ==
    /\ pc = "awaitSearch"
    /\ UNCHANGED otherThanRepos
    /\ LET pages == FixedRemote.search
       IN  SearchPage(IF page <= Len(pages) THEN pages[page] ELSE <<>>)

\* the call has returned: the client has its result, and how many
\* candidates the call had collected is kept with it
searchRepositoriesReturned ==
    /\ pc = "done"
    /\ outcome = "ok"
    /\ pureResult' = Append(pureResult, [items |-> result,
                                         size |-> Len(collected)])
    /\ pc' = "idle"
    /\ UNCHANGED <<authToken, large, params, collected, page, calls,
                   delivered0, delivered1, sizeAfterP0, sorted, result,
                   outcome, remoteErrors>>
    /\ UNCHANGED <<slug, parsed, snippetArgs, snippets, pureArgs>>
    /\ UNCHANGED <<listVars, readVars, globVars, searchVars, concurrentVars>>

InitPaging ==
    /\ IdleRepos /\ IdleList /\ IdleRead /\ IdleGlob
    /\ IdleSearch /\ client = GlobClient
    /\ slug = <<>>
    /\ parsed = <<>>
    /\ snippetArgs = <<>>
    /\ snippets = <<>>
    /\ pureArgs \in PagingArgSet
    /\ pureResult = <<>>

NextPaging ==
    \/ callPaging
    \/ fixedUserPage
    \/ fixedSearchPage
    \/ searchRepositoriesReturned

SpecPaging == InitPaging /\ [][NextPaging]_vars

(***************************************************************************)
(* createSnippetsFromLines.                                                *)
(***************************************************************************)
\* a file of n lines, each line a text of its own
NumberedLines(n) == [k \in 1..n |-> <<"line", k>>]

\* the 0-based match line indices: none, one, or two in ascending order
IndexLists(n) ==
    {<<>>} \cup { <<i>> : i \in 0..(n - 1) }
           \cup { <<i, n - 1>> : i \in 0..(n - 2) }

SnippetArgSet ==
    UNION { [fileLines : {NumberedLines(n)},
             indices : IndexLists(n),
             context : {<<>>} \cup { <<c>> : c \in 0..MaxContext }]
            : n \in 0..MaxSnippetLines }

\* context: number = 2
contextOrDefault(context) ==
    IF context = <<>> THEN ContextDefault ELSE context[1]

createSnippetsUnclipped(fileLines, indices, context) ==
    [k \in 1..Len(indices) |->
        LET start == Max(0, indices[k] - contextOrDefault(context))
            endExclusive == indices[k] + contextOrDefault(context) + 1
        IN  [startLine |-> start + 1,
             endLine |-> Max(start + 1, endExclusive),
             lines |-> Slice(fileLines, start, endExclusive)]]

createSnippetsFromLines(fileLines, indices, context) ==
    [k \in 1..Len(indices) |->
        LET start == Max(0, indices[k] - contextOrDefault(context))
            endExclusive == Min(Len(fileLines),
                                indices[k] + contextOrDefault(context) + 1)
        IN  [startLine |-> start + 1,
             endLine |-> Max(start + 1, endExclusive),
             lines |-> Slice(fileLines, start, endExclusive)]]

callCreateSnippets ==
    /\ snippets = <<>>
    /\ snippetArgs # <<>>
    /\ snippets' = <<createSnippetsFromLines(snippetArgs.fileLines,
                                             snippetArgs.indices,
                                             snippetArgs.context)>>
    /\ UNCHANGED <<slug, parsed, snippetArgs, pureArgs, pureResult>>
    /\ UNCHANGED otherThanPure

InitSnippets ==
    /\ IdleRepos /\ IdleList /\ IdleRead /\ IdleGlob
    /\ IdleSearch /\ client = GlobClient
    /\ slug = <<>>
    /\ parsed = <<>>
    /\ snippetArgs \in SnippetArgSet
    /\ snippets = <<>>
    /\ pureArgs = <<>>
    /\ pureResult = <<>>

NextSnippets == callCreateSnippets

SpecSnippets == InitSnippets /\ [][NextSnippets]_vars

(***************************************************************************)
(* searchCode, searchCommits and compareCommits.  The client awaits each   *)
(* call before the next.  The remote holds one ranked hit list per query   *)
(* and answers page p with per_page n by its items (p-1)*n+1 .. p*n.  A    *)
(* hit's path, and a commit's sha, is its rank in that list.               *)
(***************************************************************************)
SearchRepo == [owner |-> <<"o">>, repo |-> <<"r">>]

ShaOne == <<"1">>
ShaTwo == <<"2">>

\* the text of the remote's blobs
BlobText(sha) ==
    IF sha = ShaOne
    THEN <<"x", "\n", "x", "\n", "x", "\n", "A", "\n", "x", "\n", "x">>
    ELSE <<"a", "\r", "\n", "x">>

\* the bodies the remote can give for a blob: with its content, with an
\* empty content, without content
BlobBodies(sha) ==
    { [content |-> <<base64Encode(BlobText(sha))>>, encoding |-> enc] :
        enc \in {<<>>, <<"base64">>} }
    \cup { [content |-> << <<>> >>, encoding |-> <<"base64">>],
           [content |-> <<>>, encoding |-> <<>>] }

\* a fragment with highlight markup, a line break and an ellipsis
MarkedFragment ==
    <<"<", "e", "m", ">", "X", "<", "/", "e", "m", ">", "\n", " ", "a", "...">>

\* the shapes of a code-search hit: repository.full_name, sha, text_matches
ProbeShapes ==
    { [full_name |-> <<"o", "/", "r">>, sha |-> ShaOne,
       text_matches |-> << << [fragment |-> <<>>,
                               matches |-> << << [text |-> << <<"a">> >>],
                                                 [text |-> <<>>] >> >>] >> >>],
      [full_name |-> <<"o", "/", "r">>, sha |-> ShaTwo,
       text_matches |-> << << [fragment |-> <<MarkedFragment>>,
                               matches |-> <<>>] >> >>] }

HitShapes ==
    ProbeShapes \cup
    { [full_name |-> <<"o">>, sha |-> ShaOne, text_matches |-> <<>>],
      [full_name |-> <<"o", "/", "r">>, sha |-> ShaOne,
       text_matches |-> << << [fragment |-> <<>>,
                               matches |-> << << [text |-> << <<"x">> >>],
                                                 [text |-> << <<"A", " ">> >>]
                                              >> >>] >> >>] }

LongShape ==
    [full_name |-> <<"o", "/", "r">>, sha |-> ShaOne,
     text_matches |-> << << [fragment |-> <<>>,
                             matches |-> << << [text |-> << <<"a">> >>] >> >>]
                         >> >>]

\* GitHubCodeSearchItem at rank r
hitOf(shape, r) ==
    [path |-> r, sha |-> shape.sha,
     repository |-> [full_name |-> shape.full_name],
     text_matches |-> shape.text_matches]

\* GitHubCommitSearchItem at rank r
commitOf(r) ==
    [sha |-> r,
     commit |-> [message |-> IF r % 2 = 1 THEN <<"m">> ELSE <<>>,
                 author |-> IF r % 3 = 0 THEN <<>>
                            ELSE <<[name |-> IF r % 3 = 1 THEN <<"n">>
                                             ELSE <<>>]>>],
     author |-> IF r % 2 = 0 THEN <<[login |-> <<"l">>]>> ELSE <<>>]

\* list lengths around the page size of the search endpoints
LongSizes == {SearchPageSize, SearchPageSize + 1, 2 * SearchPageSize + 1}

CodeHitLists(inputs) ==
    IF inputs = "long"
    THEN { [r \in 1..n |-> hitOf(LongShape, r)] : n \in LongSizes }
    ELSE { [r \in 1..Len(shapes) |-> hitOf(shapes[r], r)] :
             shapes \in UNION { [1..n -> IF inputs = "short" THEN HitShapes
                                         ELSE ProbeShapes] :
                                  n \in 0..MaxSmallHits } }

CommitHitLists(inputs) ==
    { [r \in 1..n |-> commitOf(r)] :
        n \in IF inputs = "long" THEN LongSizes ELSE 0..MaxSmallHits }

\* CodeSearchOptions; limit and offset 0 also stand for the option left out
CodeArgSet(inputs) ==
    IF inputs = "long"
    THEN [pattern : {<<"a">>},
          limit : {0, SearchLimitMax, SearchLimitMax + 1},
          offset : {0, 1, SearchPageSize},
          context : {<<>>}]
    ELSE IF inputs = "short"
    THEN [pattern : {<<" ", "a">>, <<" ">>, <<>>},
          limit : 0..MaxLimit,
          offset : (-1)..MaxOffset,
          context : {<<>>, <<0>>}]
    ELSE [pattern : {<<"a">>, <<" ">>}, limit : {0}, offset : {0},
          context : {<<>>}]

CommitArgSet(inputs) ==
    IF inputs = "long"
    THEN [limit : {0, SearchLimitMax, SearchLimitMax + 1},
          offset : {0, 1, SearchPageSize}]
    ELSE IF inputs = "short"
    THEN [limit : 0..MaxLimit, offset : (-1)..MaxOffset]
    ELSE [limit : {0}, offset : {0}]

CompareArgSet ==
    [base : {<<>>, <<"a">>}, head : {<<>>, <<"b">>},
     includePatches : {<<>>, <<FALSE>>, <<TRUE>>}]

\* GitHubCompareFile, k-th of a response
compareFileOf(k, patch) ==
    [sha |-> <<k>>, filename |-> k, status |-> "modified", additions |-> k,
     deletions |-> 0, changes |-> k, patch |-> patch,
     previous_filename |-> IF k = 1 THEN <<>> ELSE <<"old">>]

PatchTexts == { <<>>, << <<"@", "@">> >> }

\* GitHubCompareResponse
CompareBodies(inputs) ==
    IF inputs = "probe"
    THEN [files : {<<>>, << <<compareFileOf(1, << <<"@", "@">> >>)>> >>},
          ahead_by : {<<>>}, behind_by : {<<>>}, total_commits : {<<>>},
          commits : {<<>>}]
    ELSE
    [files : {<<>>}
             \cup { <<[k \in 1..Len(patches) |->
                          compareFileOf(k, patches[k])]>> :
                      patches \in UNION { [1..m -> PatchTexts] :
                                            m \in 0..MaxCompareFiles } },
     ahead_by : {<<>>, <<1>>},
     behind_by : {<<>>},
     total_commits : {<<>>, <<3>>},
     commits : {<<>>, << <<1, 2>> >>}]

(***************************************************************************)
(* The functions of the search operations.                                 *)
(***************************************************************************)
\* `${owner}/${repo}:${sha}`
blobKey(repo, sha) == repo.owner \o <<"/">> \o repo.repo \o <<":">> \o sha

\* the lines loadBlobLines makes of a blob body with content
blobLines(data) ==
    LET buffer == bufferFrom([run |-> 0, text |-> data.content[1]],
                             IF data.encoding = <<>> THEN "base64"
                             ELSE data.encoding[1])
        lines == splitLines(replaceCRLF(toStringUtf8(buffer), 1), 1, <<>>)
    IN  [k \in 1..Len(lines) |-> [j \in 1..Len(lines[k]) |-> lines[k][j].c]]

\* value.replace(/<\/?em>/g, ""), from character i on
RECURSIVE stripHighlights(_, _)
stripHighlights(value, i) ==
    IF i > Len(value) THEN <<>>
    ELSE IF SubSeq(value, i, Min(i + 3, Len(value))) = <<"<", "e", "m", ">">>
    THEN stripHighlights(value, i + 4)
    ELSE IF SubSeq(value, i, Min(i + 4, Len(value)))
            = <<"<", "/", "e", "m", ">">>
    THEN stripHighlights(value, i + 5)
    ELSE <<value[i]>> \o stripHighlights(value, i + 1)

\* value.replace(/…/g, " "); "..." is the one character U+2026
replaceEllipsis(value) ==
    [i \in 1..Len(value) |-> IF value[i] = "..." THEN " " ELSE value[i]]

\* text.split("\n"), from character i on, cur being the line under way
RECURSIVE splitAtLineFeeds(_, _, _)
splitAtLineFeeds(chars, i, cur) ==
    IF i > Len(chars) THEN <<cur>>
    ELSE IF chars[i] = "\n" THEN <<cur>> \o splitAtLineFeeds(chars, i + 1, <<>>)
    ELSE splitAtLineFeeds(chars, i + 1, Append(cur, chars[i]))

\* the trimmed, non-empty lines of a fragment without its markup
fragmentLines(fragment) ==
    LET pieces == splitAtLineFeeds(replaceEllipsis(stripHighlights(fragment, 1)),
                                   1, <<>>)
        trimmed == [k \in 1..Len(pieces) |-> trim(pieces[k])]
    IN  SelectSeq(trimmed, LAMBDA line : Len(line) > 0)

findLastLineIndexInFile(fileLines, needle) ==
    LET lowerNeedle == toLowerCase(trim(needle))
        hits == { k \in 1..Len(fileLines) :
                    includes(toLowerCase(fileLines[k]), lowerNeedle) }
    IN  IF trim(needle) = <<>> \/ hits = {} THEN {}
        ELSE {(CHOOSE k \in hits : \A h \in hits : k >= h) - 1}

\* the set findLineIndicesInFile returns as a list: the first line that
\* holds the trimmed needle without regard to case, if any
findLineIndicesInFile(fileLines, needle) ==
    LET lowerNeedle == toLowerCase(trim(needle))
        hits == { k \in 1..Len(fileLines) :
                    includes(toLowerCase(fileLines[k]), lowerNeedle) }
    IN  IF trim(needle) = <<>> \/ hits = {} THEN {}
        ELSE {(CHOOSE k \in hits : \A h \in hits : k <= h) - 1}

\* Array.from(set).sort((a, b) => a - b)
sortAscending(set) ==
    [k \in 1..Cardinality(set) |->
        CHOOSE x \in set : Cardinality({y \in set : y < x}) = k - 1]

needlesOf(match) ==
    (IF match.matches = <<>> THEN {}
     ELSE { match.matches[1][k].text[1] :
              k \in { j \in 1..Len(match.matches[1]) :
                        /\ match.matches[1][j].text # <<>>
                        /\ match.matches[1][j].text[1] # <<>> } })
    \cup (IF match.fragment = <<>> \/ match.fragment = << <<>> >> THEN {}
          ELSE LET lines == fragmentLines(match.fragment[1])
               IN  { lines[k] : k \in 1..Len(lines) })

collectMatchLineIndices(matches, fileLines) ==
    sortAscending(UNION { findLineIndicesInFile(fileLines, needle) :
                            needle \in UNION { needlesOf(matches[k]) :
                                                 k \in 1..Len(matches) } })

\* targetRepo of a hit: the two first parts of repository.full_name, the
\* repository of the call standing in for a part that is missing
targetRepo(item, repo) ==
    LET parts == splitSegments(item.repository.full_name, 1, <<>>)
    IN  [owner |-> parts[1],
         repo |-> IF Len(parts) >= 2 THEN parts[2] ELSE repo.repo]

itemKey(item, repo) == blobKey(targetRepo(item, repo), item.sha)

\* CodeSearchResultItem of a hit whose file lines are known
resultItem(item, repo, fileLines, context) ==
    [repository |-> [owner |-> targetRepo(item, repo).owner,
                     repo |-> targetRepo(item, repo).repo,
                     fullName |-> item.repository.full_name],
     path |-> item.path,
     ref |-> item.sha,
     snippets |-> createSnippetsFromLines(
                      fileLines,
                      collectMatchLineIndices(
                          IF item.text_matches = <<>> THEN <<>>
                          ELSE item.text_matches[1], fileLines),
                      context)]

\* CommitSearchResultItem
commitItem(item) ==
    [sha |-> item.sha,
     message |-> IF item.commit.message = <<>> THEN ""
                 ELSE item.commit.message[1],
     authorName |-> IF item.commit.author # <<>>
                       /\ item.commit.author[1].name # <<>>
                    THEN item.commit.author[1].name
                    ELSE IF item.author # <<>> THEN item.author[1].login
                    ELSE <<>>]

\* CompareFileChange
compareFileWithPatch(file, options) ==
    [sha |-> file.sha, filename |-> file.filename, status |-> file.status,
     additions |-> file.additions, deletions |-> file.deletions,
     changes |-> file.changes, patch |-> file.patch,
     previousFilename |-> file.previous_filename]

compareFile(file, options) ==
    [sha |-> file.sha, filename |-> file.filename, status |-> file.status,
     additions |-> file.additions, deletions |-> file.deletions,
     changes |-> file.changes,
     patch |-> IF options.includePatches = <<TRUE>> THEN file.patch ELSE <<>>,
     previousFilename |-> file.previous_filename]

\* CompareCommitsResult
compareResult(args, data) ==
    [base |-> args.base, head |-> args.head,
     aheadBy |-> IF data.ahead_by = <<>> THEN 0 ELSE data.ahead_by[1],
     behindBy |-> IF data.behind_by = <<>> THEN 0 ELSE data.behind_by[1],
     totalCommits |-> IF data.total_commits # <<>> THEN data.total_commits[1]
                      ELSE IF data.commits # <<>> THEN Len(data.commits[1])
                      ELSE 0,
     files |-> IF data.files = <<>> THEN <<>>
               ELSE [k \in 1..Len(data.files[1]) |->
                        compareFile(data.files[1][k], args)]]

searchLimit(op, args) ==
    normalizeLimit(args.limit,
                   IF op = "searchCode" THEN CodeLimitDefault
                   ELSE CommitLimitDefault,
                   SearchLimitMax)

searchOffset(args) == normalizeOffset(args.offset)

toCollect(op, args) == searchOffset(args) + searchLimit(op, args)

\* Math.min(100, toCollect - collected.length)
perPage(op, args, have) == Min(SearchPageSize, toCollect(op, args) - have)

\* the query of searchCode
codeQuery(args, repo) ==
    LET trimmedPattern == trim(args.pattern)
        repoQualifier == <<"r", "e", "p", "o", ":">> \o repo.owner \o <<"/">>
                         \o repo.repo
    IN  IF includes(trimmedPattern, repoQualifier) THEN trimmedPattern
        ELSE trimmedPattern \o <<" ">> \o repoQualifier

pageRequest(op, args, have, pageNo) ==
    [kind |-> IF op = "searchCode" THEN "search/code" ELSE "search/commits",
     q |-> IF op = "searchCode" THEN codeQuery(args, SearchRepo)
           ELSE <<"r", "e", "p", "o", ":">> \o SearchRepo.owner \o <<"/">>
                \o SearchRepo.repo,
     per_page |-> perPage(op, args, have),
     page |-> pageNo]

\* the remote's page: items (p-1)*n+1 .. p*n of the hit list
pageOf(hits, pageNo, n) ==
    SubSeq(hits, (pageNo - 1) * n + 1, Min(pageNo * n, Len(hits)))

\* collected.slice(offset, offset + limit)
retained(op, args, coll) ==
    Slice(coll, searchOffset(args), searchOffset(args) + searchLimit(op, args))

(***************************************************************************)
(* The steps of the search operations.                                     *)
(***************************************************************************)
\* the client may begin a call: none is running and it has calls left
MayCall ==
    /\ searchPc \in {"idle", "done"}
    /\ globPc \in {"idle", "done"}
    /\ globStarted + searchStarted < client.maxCalls

\* the call ends with an error: nothing is returned
SearchFail(kind) ==
    /\ searchPc' = "done"
    /\ searchOutcome' = kind
    /\ searchResult' = <<>>

\* the call returns
SearchReturn(value) ==
    /\ searchPc' = "done"
    /\ searchOutcome' = "ok"
    /\ searchResult' = value

firstToLoadUncached(results, fc, bc, from) ==
    LET missing == { k \in from..Len(results) :
                       itemKey(results[k], SearchRepo) \notin DOMAIN fc }
    IN  IF missing = {} THEN Len(results) + 1
        ELSE CHOOSE k \in missing : \A m \in missing : k <= m

\* the first entry of the slice, from `from` on, whose lines are in neither
\* cache; Len(results) + 1 if there is none
firstToLoad(results, fc, bc, from) ==
    LET missing == { k \in from..Len(results) :
                       /\ itemKey(results[k], SearchRepo) \notin DOMAIN fc
                       /\ itemKey(results[k], SearchRepo) \notin DOMAIN bc }
    IN  IF missing = {} THEN Len(results) + 1
        ELSE CHOOSE k \in missing : \A m \in missing : k <= m

\* fileCache after the entries before `to` have been gone through: an entry
\* absent from it is taken from the blob cache
fileCacheUpTo(results, fc, bc, to) ==
    LET keys == { itemKey(results[k], SearchRepo) : k \in 1..(to - 1) }
    IN  [key \in (DOMAIN fc) \cup keys |->
            IF key \in DOMAIN fc THEN fc[key] ELSE bc[key]]

\* the loop over the slice, resumed with the caches fc and bc: it runs to
\* the next blob request or to the return of searchCode
Reconstruct(results, fc, bc, log) ==
    LET to == firstToLoad(results, fc, bc, Len(prepared) + 1)
        cache == fileCacheUpTo(results, fc, bc, to)
        items == [k \in 1..(to - 1) |->
                    resultItem(results[k], SearchRepo,
                               cache[itemKey(results[k], SearchRepo)],
                               searchArgs.context)]
    IN  /\ fileCache' = cache
        /\ prepared' = items
        /\ IF to <= Len(results)
           THEN /\ searchCalls' =
                      Append(log, [kind |-> "git/blobs",
                                   owner |-> targetRepo(results[to], SearchRepo).owner,
                                   repo |-> targetRepo(results[to], SearchRepo).repo,
                                   sha |-> results[to].sha])
                /\ searchPc' = "awaitBlob"
                /\ searchOutcome' = "none"
                /\ searchResult' = <<>>
           ELSE /\ searchCalls' = log
                /\ SearchReturn(items)

\* the beginning of a call of op with the arguments a
BeginCall(op, a) ==
    /\ MayCall
    /\ searchOp' = op
    /\ searchArgs' = a
    /\ searchStarted' = searchStarted + 1
    /\ callStart' = Len(searchCalls)
    /\ searchCollected' = <<>>
    /\ searchPage' = 1
    /\ fileCache' = <<>>
    /\ prepared' = <<>>
    /\ searchData' = <<>>
    /\ UNCHANGED <<client, blobCache, blobFailed>>
    /\ UNCHANGED otherThanSearch

emptyPatternUntrimmed(options) == Len(options.pattern) = 0

\* trimmedPattern.length === 0
emptyPattern(options) == Len(trim(options.pattern)) = 0

\* searchCode up to its first request
searchCode ==
    \E a \in CodeArgSet(client.inputs) :
        /\ BeginCall("searchCode", a)
        /\ IF emptyPattern(a)
           THEN /\ SearchFail("invalid")
                /\ searchHits' = <<>>
                /\ UNCHANGED searchCalls
           ELSE /\ \E hits \in CodeHitLists(client.inputs) : searchHits' = hits
                /\ searchCalls' = Append(searchCalls,
                                         pageRequest("searchCode", a, 0, 1))
                /\ searchPc' = "awaitPage"
                /\ searchOutcome' = "none"
                /\ searchResult' = <<>>

\* searchCommits up to its first request
searchCommits ==
    \E a \in CommitArgSet(client.inputs) :
        /\ BeginCall("searchCommits", a)
        /\ \E hits \in CommitHitLists(client.inputs) : searchHits' = hits
        /\ searchCalls' = Append(searchCalls,
                                 pageRequest("searchCommits", a, 0, 1))
        /\ searchPc' = "awaitPage"
        /\ searchOutcome' = "none"
        /\ searchResult' = <<>>

\* a page of search results arrives: the loop goes on with the next page, or
\* it ends and the collected items are sliced
searchPageReturn ==
    /\ searchPc = "awaitPage"
    /\ UNCHANGED <<client, searchOp, searchArgs, searchHits, searchStarted,
                   callStart, searchData, blobCache, blobFailed>>
    /\ UNCHANGED otherThanSearch
    /\ LET asked == perPage(searchOp, searchArgs, Len(searchCollected))
           items == pageOf(searchHits, searchPage, asked)
           coll == searchCollected \o items
           results == retained(searchOp, searchArgs, coll)
       IN  /\ searchCollected' = coll
           /\ IF /\ Len(items) # 0
                 /\ Len(items) >= asked
                 /\ Len(coll) < toCollect(searchOp, searchArgs)
              THEN /\ searchPage' = searchPage + 1
                   /\ searchCalls' =
                        Append(searchCalls,
                               pageRequest(searchOp, searchArgs, Len(coll),
                                           searchPage + 1))
                   /\ UNCHANGED <<searchPc, searchOutcome, searchResult,
                                  fileCache, prepared>>
              ELSE /\ searchPage' = IF Len(items) # 0 /\ Len(items) >= asked
                                    THEN searchPage + 1 ELSE searchPage
                   /\ IF searchOp = "searchCommits"
                      THEN /\ SearchReturn([k \in 1..Len(results) |->
                                               commitItem(results[k])])
                           /\ UNCHANGED <<searchCalls, fileCache, prepared>>
                      ELSE IF Len(coll) = 0
                      THEN /\ SearchReturn(<<>>)
                           /\ UNCHANGED <<searchCalls, fileCache, prepared>>
                      ELSE Reconstruct(results, fileCache, blobCache,
                                       searchCalls)

\* the search request is answered with a non-success status
searchPageError ==
    /\ searchPc = "awaitPage"
    /\ SearchFail("http")
    /\ UNCHANGED <<client, blobCache, searchOp, searchArgs, searchHits,
                   searchCalls, searchCollected, searchPage, fileCache,
                   prepared, searchData, searchStarted, callStart, blobFailed>>
    /\ UNCHANGED otherThanSearch

\* the slice of the running searchCode call and the entry whose blob is asked
Results == retained(searchOp, searchArgs, searchCollected)
LoadingKey == itemKey(Results[Len(prepared) + 1], SearchRepo)

BlobAborts ==
    /\ blobFailed' = blobFailed \cup {LoadingKey}
    /\ SearchFail("http")
    /\ UNCHANGED <<blobCache, searchCalls, fileCache, prepared>>

BlobCachedEmpty ==
    /\ blobFailed' = blobFailed \cup {LoadingKey}
    /\ blobCache' = MapSet(blobCache, LoadingKey, <<>>)
    /\ Reconstruct(Results, MapSet(fileCache, LoadingKey, <<>>),
                   MapSet(blobCache, LoadingKey, <<>>), searchCalls)

\* the blob request ended with a ViewerError: searchCode takes the file as
\* one without lines
BlobUnreadable ==
    /\ blobFailed' = blobFailed \cup {LoadingKey}
    /\ UNCHANGED blobCache
    /\ Reconstruct(Results,
                   MapSet(fileCache, LoadingKey, <<>>), blobCache, searchCalls)

\* loadBlobLines with the body `data` of the blob response
BlobLoaded(data) ==
    IF data.content = <<>> \/ data.content = << <<>> >>
    THEN BlobUnreadable
    ELSE /\ blobCache' = MapSet(blobCache, LoadingKey, blobLines(data))
         /\ blobFailed' = blobFailed \ {LoadingKey}
         /\ Reconstruct(Results,
                        MapSet(fileCache, LoadingKey, blobLines(data)),
                        MapSet(blobCache, LoadingKey, blobLines(data)),
                        searchCalls)

\* loadBlobLines: the blob response arrives
loadBlobLines ==
    /\ searchPc = "awaitBlob"
    /\ UNCHANGED <<client, searchOp, searchArgs, searchHits, searchCollected,
                   searchPage, searchData, searchStarted, callStart>>
    /\ UNCHANGED otherThanSearch
    /\ \E data \in BlobBodies(Results[Len(prepared) + 1].sha) :
        BlobLoaded(data)

\* the blob request is answered with a non-success status
loadBlobLinesError ==
    /\ searchPc = "awaitBlob"
    /\ UNCHANGED <<client, searchOp, searchArgs, searchHits, searchCollected,
                   searchPage, searchData, searchStarted, callStart>>
    /\ UNCHANGED otherThanSearch
    /\ BlobUnreadable

\* the blob request gets no response: fetch rejects with an error that is
\* not a ViewerError, and searchCode throws it again
loadBlobLinesRejected ==
    /\ searchPc = "awaitBlob"
    /\ SearchFail("failure")
    /\ blobFailed' = blobFailed \cup {LoadingKey}
    /\ UNCHANGED <<client, blobCache, searchOp, searchArgs, searchHits,
                   searchCalls, searchCollected, searchPage, fileCache,
                   prepared, searchData, searchStarted, callStart>>
    /\ UNCHANGED otherThanSearch

\* compareCommits up to its request
compareCommits ==
    \E a \in CompareArgSet :
        /\ BeginCall("compareCommits", a)
        /\ searchHits' = <<>>
        /\ IF a.base = <<>> \/ a.head = <<>>
           THEN /\ SearchFail("invalid")
                /\ UNCHANGED searchCalls
           ELSE /\ searchCalls' = Append(searchCalls,
                                         [kind |-> "compare", base |-> a.base,
                                          head |-> a.head])
                /\ searchPc' = "awaitCompare"
                /\ searchOutcome' = "none"
                /\ searchResult' = <<>>

\* the compare response arrives
compareCommitsReturn ==
    /\ searchPc = "awaitCompare"
    /\ UNCHANGED <<client, blobCache, searchOp, searchArgs, searchHits,
                   searchCalls, searchCollected, searchPage, fileCache,
                   prepared, searchStarted, callStart, blobFailed>>
    /\ UNCHANGED otherThanSearch
    /\ \E data \in CompareBodies(client.inputs) :
        /\ searchData' = data
        /\ SearchReturn(compareResult(searchArgs, data))

compareCommitsError ==
    /\ searchPc = "awaitCompare"
    /\ SearchFail("http")
    /\ UNCHANGED <<client, blobCache, searchOp, searchArgs, searchHits,
                   searchCalls, searchCollected, searchPage, fileCache,
                   prepared, searchData, searchStarted, callStart, blobFailed>>
    /\ UNCHANGED otherThanSearch

(***************************************************************************)
(* limit and offset as the values a caller may pass, and the calls of a     *)
(* client of one search operation on a remote that holds a number of       *)
(* items and whose data do not change: one call with the limit and offset  *)
(* it was given, one without the limit, one with offset 0, each awaited    *)
(* before the next.  pureResult holds what the calls have returned so far. *)
(***************************************************************************)
Undefined == [type |-> "undefined", nan |-> FALSE, value |-> 0]
NaN == [type |-> "number", nan |-> TRUE, value |-> 0]
Number(n) == [type |-> "number", nan |-> FALSE, value |-> n]

\* typeof v !== "number" || Number.isNaN(v)
notANumber(v) == v.type # "number" \/ v.nan

\* the integer the operations of this module carry for an option, 0 for a
\* value that is not a number
optionValue(v) == IF notANumber(v) THEN 0 ELSE v.value

\* normalizeLimit and normalizeOffset on such values
normalizeLimitOf(v, fallback, max) ==
    IF notANumber(v) THEN fallback ELSE normalizeLimit(v.value, fallback, max)

normalizeOffsetOf(v) == IF notANumber(v) THEN 0 ELSE normalizeOffset(v.value)

SearchOps == {"searchRepositories", "searchCode", "searchCommits"}

defaultLimit(op) ==
    CASE op = "searchRepositories" -> RepoLimitDefault
      [] op = "searchCode" -> CodeLimitDefault
      [] OTHER -> CommitLimitDefault

\* the operation, its limit and offset, and how many items the remote holds
LimitArgSet ==
    [op : SearchOps,
     limit : {Undefined, NaN}
             \cup { Number(n) : n \in {-1, 0, 1, SearchLimitMax,
                                       SearchLimitMax + 1} },
     offset : {Undefined, NaN} \cup { Number(n) : n \in {-1, 0, 1} },
     held : {0, CodeLimitDefault, CodeLimitDefault + 1,
             CommitLimitDefault + 1, SearchLimitMax + 1,
             2 * SearchPageSize + 1}]

\* the arguments of the three calls
LimitVariants(a) ==
    << a, [a EXCEPT !.limit = Undefined], [a EXCEPT !.offset = Number(0)] >>

\* the options of the call with the arguments a, as the operation takes them
limitOptions(a) ==
    IF a.op = "searchRepositories"
    THEN [limit |-> optionValue(a.limit), offset |-> optionValue(a.offset),
          pattern |-> <<>>, organization |-> <<>>, language |-> <<>>]
    ELSE IF a.op = "searchCode"
    THEN [pattern |-> <<"a">>, limit |-> optionValue(a.limit),
          offset |-> optionValue(a.offset), context |-> <<>>]
    ELSE [limit |-> optionValue(a.limit), offset |-> optionValue(a.offset)]

\* the hits the remote holds for searchCode and searchCommits
heldHits(a) ==
    [r \in 1..a.held |->
        IF a.op = "searchCode" THEN hitOf(LongShape, r) ELSE commitOf(r)]

\* the client makes its next call: the operation up to its first request
callWithLimit ==
    /\ Len(pureResult) < Len(LimitVariants(pureArgs))
    /\ LET a == LimitVariants(pureArgs)[Len(pureResult) + 1]
       IN  IF a.op = "searchRepositories"
           THEN /\ pc = "idle"
                /\ beginSearchRepositories(limitOptions(a))
                /\ UNCHANGED otherThanRepos
           ELSE /\ Len(pureResult) = searchStarted
                /\ BeginCall(a.op, limitOptions(a))
                /\ searchHits' = heldHits(a)
                /\ searchCalls' = Append(searchCalls,
                                         pageRequest(a.op, limitOptions(a),
                                                     0, 1))
                /\ searchPc' = "awaitPage"
                /\ searchOutcome' = "none"
                /\ searchResult' = <<>>

\* the body the remote gives for a blob
FixedBlob(sha) ==
    [content |-> <<base64Encode(BlobText(sha))>>, encoding |-> <<"base64">>]

\* loadBlobLines: the blob response of the remote arrives
fixedBlobLines ==
    /\ searchPc = "awaitBlob"
    /\ UNCHANGED <<client, searchOp, searchArgs, searchHits, searchCollected,
                   searchPage, searchData, searchStarted, callStart>>
    /\ UNCHANGED otherThanSearch
    /\ BlobLoaded(FixedBlob(Results[Len(prepared) + 1].sha))

\* the call of searchCode or searchCommits has returned: the client has
\* its result
callReturned ==
    /\ searchPc = "done"
    /\ searchOutcome = "ok"
    /\ Len(pureResult) < searchStarted
    /\ pureResult' = Append(pureResult, [items |-> searchResult,
                                         size |-> Len(searchCollected)])
    /\ UNCHANGED <<slug, parsed, snippetArgs, snippets, pureArgs>>
    /\ UNCHANGED otherThanPure

InitLimits ==
    /\ IdleRepos /\ IdleList /\ IdleRead /\ IdleGlob
    /\ IdleSearch
    /\ slug = <<>>
    /\ parsed = <<>>
    /\ snippetArgs = <<>>
    /\ snippets = <<>>
    /\ pureArgs \in LimitArgSet
    /\ pureResult = <<>>
    /\ client = [maxCalls |-> Len(LimitVariants(pureArgs)),
                 inputs |-> "fixed"]

NextLimits ==
    \/ callWithLimit
    \/ fixedUserPage
    \/ fixedSearchPage
    \/ searchRepositoriesReturned
    \/ searchPageReturn
    \/ fixedBlobLines
    \/ callReturned

SpecLimits == InitLimits /\ [][NextLimits]_vars

\* the clients of the search operations: one call on a short hit list with
\* any options, one call on a long hit list, MaxSearchCalls calls with the
\* default options
SearchClients ==
    { [maxCalls |-> 1, inputs |-> "short"],
      [maxCalls |-> 1, inputs |-> "long"],
      [maxCalls |-> MaxSearchCalls, inputs |-> "probe"] }

InitSearch ==
    /\ IdleRepos /\ IdleList /\ IdleRead /\ IdleGlob /\ IdlePure /\ IdleSearch
    /\ client \in SearchClients

NextSearch ==
    \/ searchCode
    \/ searchCommits
    \/ searchPageReturn
    \/ searchPageError
    \/ loadBlobLines
    \/ loadBlobLinesError
    \/ loadBlobLinesRejected
    \/ compareCommits
    \/ compareCommitsReturn
    \/ compareCommitsError

SpecSearch == InitSearch /\ [][NextSearch]_vars

(***************************************************************************)
(* A client that calls globFiles and searchCode on one viewer, each call   *)
(* awaited before the next.                                                *)
(***************************************************************************)
ViewerClient == [maxCalls |-> MaxViewerCalls, inputs |-> "probe"]

InitViewer ==
    /\ IdleRepos /\ IdleList /\ IdleRead /\ IdleGlob /\ IdlePure /\ IdleSearch
    /\ client = ViewerClient

NextViewer ==
    \/ globFiles
    \/ getDefaultBranch
    \/ getDefaultBranchError
    \/ fetchTree
    \/ fetchTreeError
    \/ searchCode
    \/ searchPageReturn
    \/ searchPageError
    \/ loadBlobLines
    \/ loadBlobLinesError
    \/ loadBlobLinesRejected

SpecViewer == InitViewer /\ [][NextViewer]_vars

(***************************************************************************)
(* Properties of searchRepositories.                                       *)
(***************************************************************************)
Returned == pc = "done" /\ outcome = "ok"

FullNames(delivered) == { q.fn : q \in delivered }

PayloadOf(delivered, fn) == CHOOSE q \in delivered : q.fn = fn

\* how often a full name occurs in the returned list
Count(fn) == Cardinality({ i \in 1..Len(result) : result[i].fullName = fn })

ResultNames == { result[i].fullName : i \in 1..Len(result) }

EntryOf(fn) == collected[IndexOf(collected, fn)]

\* the full names both channels delivered
InBoth == FullNames(delivered0) \cap FullNames(delivered1)

PassesFilters(repo, priority) ==
    ~rejected(mapRepoSummary(repo), repo, priority, params)

\* the full names of which both channels delivered a candidate, a payload
\* that passes the filters of the call
CandidateInBoth ==
    { fn \in InBoth : /\ PassesFilters(PayloadOf(delivered0, fn), 0)
                      /\ PassesFilters(PayloadOf(delivered1, fn), 1) }

\* C1 as stated: a full name of which the priority-0 channel and the search
\* fallback both delivered a candidate is in the result exactly once, as the
\* entry built from the priority-0 payload, and no full name is in a result
\* twice.
C1_AsStated ==
    Returned =>
        /\ \A fn \in ResultNames : Count(fn) = 1
        /\ \A fn \in CandidateInBoth :
            /\ Count(fn) = 1
            /\ EntryOf(fn).priority = 0
            /\ \E i \in 1..Len(result) :
                result[i] = mapRepoSummary(PayloadOf(delivered0, fn))

\* C1, amended: a full name of which both channels delivered a candidate is in
\* the merged set exactly once, as the entry built from the priority-0 payload
\* (whatever the stars of the two); the result holds it at most once, never
\* built from the search payload, and exactly once when the offset is 0; no
\* full name is in a result twice.
C1_MergePriority ==
    Returned =>
        /\ \A fn \in ResultNames : Count(fn) = 1
        /\ \A fn \in CandidateInBoth :
            /\ Cardinality({ i \in 1..Len(collected) :
                                collected[i].summary.fullName = fn }) = 1
            /\ EntryOf(fn).priority = 0
            /\ EntryOf(fn).summary = mapRepoSummary(PayloadOf(delivered0, fn))
            /\ \A i \in 1..Len(result) :
                result[i].fullName = fn => result[i] = EntryOf(fn).summary
            /\ Offset(params) = 0 => Count(fn) = 1

\* both channels delivered a name, the search payload with more stars, and the
\* name is in the result
C1_Witness ==
    /\ Returned
    /\ \E fn \in CandidateInBoth :
        /\ PayloadOf(delivered1, fn).stars > PayloadOf(delivered0, fn).stars
        /\ Count(fn) = 1

\* a goes before b in the order of the specification
Precedes(a, b) ==
    \/ a.priority < b.priority
    \/ /\ a.priority = b.priority
       /\ \/ a.stars > b.stars
          \/ /\ a.stars = b.stars
             /\ \/ ScoreOrZero(a.score) > ScoreOrZero(b.score)
                \/ /\ ScoreOrZero(a.score) = ScoreOrZero(b.score)
                   /\ localeCompare(FullNameOf(a.summary.fullName),
                                    FullNameOf(b.summary.fullName)) < 0

\* C2: the returned list is the slice of a list ordered by priority ascending,
\* stars descending, score descending (absent as 0), full name ascending; a
\* priority-0 entry is never behind a search-sourced one.
C2_Ordered ==
    Returned =>
        /\ \A i \in 1..(Len(result) - 1) :
            Precedes(EntryOf(result[i].fullName), EntryOf(result[i + 1].fullName))
        /\ \A i \in 1..Len(result), j \in 1..Len(result) :
            (i < j) => ~(/\ EntryOf(result[i].fullName).priority = 1
                         /\ EntryOf(result[j].fullName).priority = 0)
        /\ \A i \in 1..(Len(sorted) - 1) : Precedes(sorted[i], sorted[i + 1])
        /\ Len(sorted) = Len(collected)
        /\ \A i \in 1..Len(result) :
            result[i] = sorted[Offset(params) + i].summary

\* a priority-0 entry is returned ahead of a search-sourced one with more stars
C2_Witness ==
    /\ Returned
    /\ Len(result) >= 2
    /\ EntryOf(result[1].fullName).priority = 0
    /\ EntryOf(result[2].fullName).priority = 1
    /\ result[2].stars > result[1].stars

LanguageFilter == trim(params.language) # <<>>

\* C3 as stated: with a language filter, a priority-0 candidate without a
\* language is rejected and is not in the result, and a search-sourced
\* candidate is not rejected for lacking a language.
C3_AsStated ==
    (Returned /\ LanguageFilter) =>
        /\ \A i \in 1..Len(result) :
            ~(/\ EntryOf(result[i].fullName).priority = 0
              /\ result[i].language = <<>>)
        /\ \A q \in delivered1 :
            (/\ q.lang = <<>>
             /\ q.fn \notin FullNames(delivered0)
             /\ PassesFilters([q EXCEPT !.lang = <<"T", "S">>], 1))
                => IndexOf(collected, q.fn) # 0

\* C4: the search endpoint is requested exactly when the priority-0 phase has
\* ended with fewer than offset+limit unique candidates, and no priority-0
\* request follows a search request.
C4_FallbackTrigger ==
    /\ (sizeAfterP0 = -1) =>
            \A i \in 1..Len(calls) : calls[i] # "search"
    /\ (sizeAfterP0 >= 0) =>
            ((\E i \in 1..Len(calls) : calls[i] = "search")
                <=> sizeAfterP0 < ToCollect(params))
    /\ \A i \in 1..Len(calls), j \in 1..Len(calls) :
            (i < j /\ calls[i] = "search") => calls[j] = "search"

\* the priority-0 channel was requested and yielded too few, then the search
C4_Witness ==
    /\ Returned
    /\ P0Requests >= 1
    /\ sizeAfterP0 >= 1
    /\ calls[Len(calls)] = "search"

\* the entries the delivered payloads merge into: every priority-0 payload that
\* passes the filters, and every search payload that passes them whose full
\* name no such priority-0 payload has
MergedSet ==
    LET from0 == { q \in delivered0 : PassesFilters(q, 0) }
        from1 == { q \in delivered1 :
                     PassesFilters(q, 1) /\ q.fn \notin FullNames(from0) }
        entry(q, priority) ==
            [summary |-> mapRepoSummary(q), priority |-> priority,
             stars |-> q.stars, score |-> q.score]
    IN  { entry(q, 0) : q \in from0 } \cup { entry(q, 1) : q \in from1 }

\* the number of entries of S that go before e in the order of Precedes
Rank(S, e) == Cardinality({ d \in S : Precedes(d, e) })

\* positions offset+1 .. offset+limit of the set S listed in that order
Expected ==
    LET S == MergedSet
        n == Max(0, Min(Limit(params), Cardinality(S) - Offset(params)))
    IN  [i \in 1..n |->
            (CHOOSE e \in S : Rank(S, e) = Offset(params) + i - 1).summary]

\* C5 as stated: the returned sequence is a function of the delivered payloads
\* and the parameters alone, whatever the order of the listing.
C5_AsStated == Returned => result = Expected

\* C5, amended: as long as fewer than offset+limit+100 unique candidates are
\* collected, the returned sequence is decided by the sets of payloads the two
\* channels hold and the parameters, whatever the order of the listing, and
\* offset 1 with limit 1 on a merged set of two returns its second entry.
C5_Deterministic ==
    (Returned /\ Len(collected) < MaxIntermediate(params)) =>
        /\ result = Expected
        /\ (Len(collected) = 2 /\ Offset(params) = 1 /\ Limit(params) = 1) =>
                result = << (CHOOSE e \in MergedSet :
                                Rank(MergedSet, e) = 1).summary >>

\* a merged set of two, from both channels, read with offset 1 and limit 1
C5_Witness ==
    /\ Returned
    /\ Len(collected) = 2
    /\ collected[1].priority # collected[2].priority
    /\ Offset(params) = 1
    /\ Limit(params) = 1
    /\ Len(result) = 1

Failed == pc = "done" /\ outcome = "error"

\* the priority-0 payloads delivered are all in the collected set
DeliveredKept ==
    \A q \in delivered0 :
        PassesFilters(q, 0) =>
            /\ IndexOf(collected, q.fn) # 0
            /\ EntryOf(q.fn).priority = 0
            /\ EntryOf(q.fn).summary = mapRepoSummary(q)

SearchRequested == \E i \in 1..Len(calls) : calls[i] = "search"

\* C21: without an organization a remote error of the user listing is not
\* propagated: what was collected before it is kept and the search fallback
\* follows under its usual test; a remote error of the organization listing
\* or of the search fallback ends the call with the error and no result.
\* (The one other way the call ends without a result is a failure of the
\* user listing that is no remote error, which the catch throws again.)
C21_UserErrorSwallowed ==
    /\ remoteErrors \subseteq
          (IF trim(params.organization) = <<>> THEN {"user", "search"}
           ELSE {"org", "search"})
    /\ "user" \in remoteErrors =>
          /\ sizeAfterP0 >= 0
          /\ Len(collected) < MaxIntermediate(params) => DeliveredKept
          /\ SearchRequested <=> sizeAfterP0 < ToCollect(params)
          /\ (pc = "done" /\ "search" \notin remoteErrors) =>
                /\ outcome = "ok"
                /\ result = SliceResult(SortEntries(collected), params)
    /\ ("org" \in remoteErrors \/ "search" \in remoteErrors) =>
          /\ Failed
          /\ result = <<>>
    /\ Failed => ("org" \in remoteErrors \/ "search" \in remoteErrors)
    /\ outcome = "rejected" =>
          /\ pc = "done"
          /\ trim(params.organization) = <<>>
          /\ "user" \notin remoteErrors
          /\ ~SearchRequested
          /\ result = <<>>

\* the user listing delivered a candidate, then failed; the search fallback
\* ran and the call returned the candidates of both
C21_Witness ==
    /\ Returned
    /\ remoteErrors = {"user"}
    /\ sizeAfterP0 >= 1
    /\ Len(result) = 2
    /\ EntryOf(result[1].fullName).priority = 0
    /\ EntryOf(result[2].fullName).priority = 1

\* the search requests of the call
SearchRequests == { i \in 1..Len(calls) : calls[i] = "search" }

\* C22: the collected set never has more than offset+limit+100 entries, and
\* no request for a page of either channel is issued once it has that
\* many: no request is pending with the set at the cap, also when the page
\* that filled it carried a next link or was a full page of the search
C22_IntermediateCap ==
    /\ Len(collected) <= MaxIntermediate(params)
    /\ pc \in {"awaitOrg", "awaitUser", "awaitSearch"} =>
          Len(collected) < MaxIntermediate(params)
    /\ (Len(collected) >= MaxIntermediate(params) /\ ToCollect(params) > 0) =>
          /\ Returned \/ Failed
          /\ sizeAfterP0 >= MaxIntermediate(params) => ~SearchRequested

\* the search has answered with two full pages, the second of which filled
\* the collected set to the cap: the loop went on to page 3 and the call
\* has returned without a request for it
C22_Witness ==
    /\ Returned
    /\ Len(collected) = MaxIntermediate(params)
    /\ Range(SecondBulkPage) \subseteq delivered1
    /\ page = 3
    /\ Cardinality(SearchRequests) = 2

(***************************************************************************)
(* Properties of listPath.                                                 *)
(***************************************************************************)
ListReturned == listPc = "done" /\ listOutcome = "ok"

\* the entries of the response, a single object counting as a list of one
Listed == IF listData.isArray THEN listData.body ELSE <<listData.body>>

\* the result holds the normalized entries at positions [from, from + count)
\* of the response, cut at its end
HoldsPositions(from, count) ==
    LET n == Max(0, Min(from + count, Len(Listed)) - from)
    IN  /\ Len(listResult.entries) = n
        /\ \A k \in 1..n : listResult.entries[k] = formatEntry(Listed[from + k])

\* the result holds every normalized entry from position `from` on
HoldsFrom(from) == HoldsPositions(from, Len(Listed))

\* C6 as stated: listPath returns the normalized entries at positions
\* [offset, offset+limit) of the response when a limit is given, and every
\* entry from position offset on when it is omitted (a missing or negative
\* offset counting as 0), a single object being a list of one
C6_AsStated ==
    ListReturned =>
        IF listArgs.limit # <<>>
        THEN HoldsPositions(listOffset(listArgs), Max(0, listArgs.limit[1]))
        ELSE HoldsFrom(listOffset(listArgs))

\* the number of entries a given limit stands for
EffectiveListLimit(n) == IF n <= 0 THEN 1 ELSE IF n > 1000 THEN 1000 ELSE n

\* C6: listPath returns the normalized entries at positions
\* [offset, offset+L) of the response, in response order, when a limit is
\* given, L being the limit capped at 1000 and 1 for a limit of zero or
\* less; every entry from position offset on when the limit is omitted; a
\* single object is a list of one; a missing or negative offset is 0
C6_ListSlice ==
    ListReturned =>
        IF listArgs.limit # <<>>
        THEN HoldsPositions(listOffset(listArgs),
                            EffectiveListLimit(listArgs.limit[1]))
        ELSE HoldsFrom(listOffset(listArgs))

\* a listing cut on both sides: entries before the offset and after the limit
C6_Witness ==
    /\ ListReturned
    /\ listData.isArray
    /\ listArgs.limit # <<>> /\ listArgs.offset # <<>>
    /\ listArgs.limit[1] >= 1 /\ listArgs.offset[1] >= 1
    /\ Len(Listed) > listArgs.offset[1] + listArgs.limit[1]
    /\ Len(listResult.entries) = listArgs.limit[1]
    /\ listResult.entries[1] = formatEntry(Listed[listArgs.offset[1] + 1])

(***************************************************************************)
(* Properties of readFile.  The lines of the remote file are described     *)
(* from the positions of its line feeds.                                   *)
(***************************************************************************)
ReadReturned == readPc = "done" /\ readOutcome = "ok"

\* the response carried a file with a content payload
ReadGotContent ==
    /\ readPc = "done"
    /\ readOutcome # "http"
    /\ readData.type = "file"
    /\ ~(readData.content.run = 0 /\ readData.content.text = <<>>)

\* the response carried a file whose content is the empty string
ReadGotEmptyFile ==
    /\ readPc = "done"
    /\ readOutcome # "http"
    /\ readData.type = "file"
    /\ readData.content.run = 0
    /\ readData.content.text = <<>>

FileBytes == 3 * readSource.run + Len(readSource.tail)

LineFeeds == { i \in 1..Len(readSource.tail) : readSource.tail[i] = "\n" }

NumLines == Cardinality(LineFeeds) + 1

\* the position of the j-th line feed; 0 for j = 0, past the end for j = n
LineFeedAt(j) ==
    IF j = 0 THEN 0
    ELSE IF j = NumLines THEN Len(readSource.tail) + 1
    ELSE CHOOSE i \in LineFeeds :
            Cardinality({ q \in LineFeeds : q <= i }) = j

\* the j-th line of the file, line ends LF or CRLF
FileLine(j) ==
    LET a == LineFeedAt(j - 1) + 1
        b == LineFeedAt(j) - 1
        e == IF j < NumLines /\ b >= a /\ readSource.tail[b] = "\r"
             THEN b - 1 ELSE b
    IN  (IF j = 1 /\ readSource.run > 0
         THEN <<[c |-> "x", n |-> 3 * readSource.run]>> ELSE <<>>)
        \o asTokens(SubSeq(readSource.tail, a, e))

\* the number m < 10^6 right-aligned to width 6, then one space
NumberPrefix(m) ==
    LET unit == <<100000, 10000, 1000, 100, 10, 1>>
        digit == <<"0", "1", "2", "3", "4", "5", "6", "7", "8", "9">>
    IN  [i \in 1..7 |->
            [c |-> IF i = 7 THEN " "
                   ELSE IF m >= unit[i] \/ i = 6
                   THEN digit[((m \div unit[i]) % 10) + 1]
                   ELSE " ",
             n |-> 1]]

\* the result holds the file lines first..last, numbered if asked
HoldsLines(first, last) ==
    /\ Len(readResult.lines) = Max(0, last - first + 1)
    /\ \A k \in 1..Len(readResult.lines) :
          readResult.lines[k] =
              (IF readArgs.includeLineNumbers
               THEN NumberPrefix(first + k - 1) ELSE <<>>)
              \o FileLine(first + k - 1)

ValidRange ==
    /\ readArgs.range # <<>>
    /\ 1 <= readArgs.range[1].start
    /\ readArgs.range[1].start <= readArgs.range[1].end

\* the lines of the file as a text: each line feed ends a line, and what
\* follows the last line feed is a line only if it is not empty
TextLineCount ==
    Cardinality(LineFeeds)
    + (IF Len(readSource.tail) > 0
       THEN (IF readSource.tail[Len(readSource.tail)] = "\n" THEN 0 ELSE 1)
       ELSE (IF readSource.run > 0 THEN 1 ELSE 0))

\* C7 as stated: readFile with a range {start,end}, 1 <= start <= end, on a
\* file of n lines returns exactly the file lines start..min(end,n), none
\* when start > n, n being the number of lines of the text; with
\* includeLineNumbers the k-th returned line carries the number start+k-1
\* (k when no range is given), right-aligned to width 6, and one space
C7_AsStated ==
    /\ (ReadGotContent /\ ValidRange) =>
          /\ ReadReturned
          /\ HoldsLines(readArgs.range[1].start,
                        Min(readArgs.range[1].end, TextLineCount))
    /\ (ReadReturned /\ readArgs.range = <<>> /\ readArgs.includeLineNumbers) =>
          \A k \in 1..Len(readResult.lines) :
              SubSeq(readResult.lines[k], 1, 7) = NumberPrefix(k)

\* C7: on a file whose content is not empty, readFile with a range
\* {start,end}, 1 <= start <= end, succeeds and returns exactly the lines
\* start..min(end,n) in order (none when start > n), the lines being the n
\* pieces between the line feeds of the text, so that a text ending with a
\* line feed has an empty last line; with includeLineNumbers the k-th
\* returned line is prefixed with start+k-1 right-aligned to width 6 and
\* one space, the numbering starting at 1 when no range is given; on a
\* file whose content is empty the call fails, with or without a range
C7_RangeLines ==
    /\ (ReadGotContent /\ ValidRange) =>
          /\ ReadReturned
          /\ HoldsLines(readArgs.range[1].start,
                        Min(readArgs.range[1].end, NumLines))
    /\ (ReadReturned /\ readArgs.range = <<>>) => HoldsLines(1, NumLines)
    /\ ReadGotEmptyFile => readOutcome = "notFile"

\* lines 2..3 of a three-line file, asked for as 2..4, with their numbers
C7_Witness ==
    /\ ReadReturned
    /\ ValidRange
    /\ readArgs.range[1].start = 2 /\ readArgs.range[1].end = 4
    /\ NumLines = 3
    /\ readArgs.includeLineNumbers
    /\ Len(readResult.lines) = 2
    /\ readResult.lines[1][6].c = "2"
    /\ readResult.lines[2][6].c = "3"

\* C8: for a response that carries a file with content, readFile without a
\* range fails with the size-guard ViewerError exactly when the decoded
\* content is larger than 204800 bytes, a file of exactly 204800 bytes
\* being returned whole; with an explicit range it never fails for its size
C8_SizeGuard ==
    ReadGotContent =>
        IF readArgs.range = <<>>
        THEN IF FileBytes > 204800
             THEN readOutcome = "tooLarge"
             ELSE ReadReturned /\ Len(readResult.lines) = NumLines
        ELSE ReadReturned

\* a file of exactly 204800 bytes read whole
C8_Witness ==
    /\ ReadReturned
    /\ readArgs.range = <<>>
    /\ FileBytes = 204800
    /\ Len(readResult.lines) = NumLines

(***************************************************************************)
(* Properties of globFiles.                                                *)
(***************************************************************************)
GlobReturned == globPc = "done" /\ globOutcome = "ok"

\* the (repository, ref, pattern) of the running call, its ref being known
CallTriple == Triple(globArgs.repo, globRef[1], globArgs.pattern)

CallKey == cacheKey(globArgs.repo, globRef[1], globArgs.pattern)

KeyOf(triple) ==
    triple.owner \o <<"/">> \o triple.repo \o <<"@">> \o triple.ref \o <<":">>
    \o triple.pattern

\* C9: once a call for a (repository, ref, pattern) has succeeded, every
\* later call for the same triple succeeds without a tree request and with
\* the matches and the truncated flag of the first one, whatever the tree
\* responses in between; the cache entry of the triple is never replaced
C9_CacheServes ==
    /\ (globPc = "done" /\ globRef # <<>> /\ CallTriple \in globKnown) =>
          /\ GlobReturned
          /\ ~globFetched
          /\ globResult.matches = firstResult[CallTriple].matches
          /\ globResult.truncated = firstResult[CallTriple].truncated
    /\ globPc = "awaitTree" => CallTriple \notin globKnown
    /\ \A t \in DOMAIN firstResult :
          /\ KeyOf(t) \in DOMAIN treeCache
          /\ treeCache[KeyOf(t)] = firstResult[t]

\* the third call is served from the cache although a later response for
\* the same repository and ref carried another tree
C9_Witness ==
    /\ GlobReturned
    /\ globStarted = 3
    /\ CallTriple \in globKnown
    /\ ~globFetched
    /\ globResult.matches # <<>>
    /\ \E k \in DOMAIN treeSource :
          /\ k # CallKey
          /\ treeSource[k].triple.owner = CallTriple.owner
          /\ treeSource[k].triple.repo = CallTriple.repo
          /\ treeSource[k].triple.ref = CallTriple.ref
          /\ treeSource[k].body.tree # treeSource[CallKey].body.tree

\* C10: the truncated field of a result is true exactly when the tree
\* response its cache entry was computed from was marked truncated; a tree
\* response that carries a tree, truncated or not, makes the call succeed
\* with the matching blobs of that tree
C10_Truncated ==
    /\ GlobReturned =>
          (globResult.truncated <=> treeSource[CallKey].body.truncated = <<TRUE>>)
    /\ (globPc = "done" /\ globFetched /\ globOutcome # "http"
          /\ globData.tree # <<>>) =>
          /\ GlobReturned
          /\ globResult.matches
               = globMatches(globData.tree[1], globArgs.pattern, 1)
          /\ (globResult.truncated <=> globData.truncated = <<TRUE>>)

\* a truncated tree whose matches are returned
C10_Witness ==
    /\ GlobReturned
    /\ globFetched
    /\ globData.truncated = <<TRUE>>
    /\ globResult.truncated
    /\ globResult.matches # <<>>

\* C11: when the caller has mutated the matches list of an earlier call for
\* a (repository, ref, pattern), a later call for that triple still returns
\* the matches of the first successful call, and the cache entry of every
\* triple still holds them
C11_DefensiveCopy ==
    /\ (GlobReturned /\ CallTriple \in globKnown) =>
          globResult.matches = firstResult[CallTriple].matches
    /\ \A t \in DOMAIN firstResult :
          treeCache[KeyOf(t)].matches = firstResult[t].matches

\* a call served from the cache after the caller changed the list an
\* earlier call for the same triple had returned
C11_Witness ==
    /\ GlobReturned
    /\ CallTriple \in globKnown
    /\ CallTriple \in mutatedFor
    /\ ~globFetched
    /\ globResult.matches # <<>>
    /\ callerList.items = globResult.matches

\* the successful tree responses recorded for a (repository, ref) pair
FetchedFor(owner, repo, ref) ==
    {k \in DOMAIN treeSource :
        /\ treeSource[k].triple.owner = owner
        /\ treeSource[k].triple.repo = repo
        /\ treeSource[k].triple.ref = ref}

\* C12 as stated: the tree of a (repository, ref) pair is fetched at most
\* once, whatever the patterns of the calls
C12_AsStated ==
    \A k \in DOMAIN treeSource :
        Cardinality(FetchedFor(treeSource[k].triple.owner,
                               treeSource[k].triple.repo,
                               treeSource[k].triple.ref)) <= 1

\* C12: a tree request is issued only by a call whose cache key
\* owner/repo@ref:pattern has no entry, and a call whose key no earlier
\* successful call had always issues one; so the tree of a pair is fetched
\* again for each new pattern, and at most once with success for one key
C12_OncePerKey ==
    /\ globPc = "awaitTree" => CallKey \notin DOMAIN treeCache
    /\ (GlobReturned /\ globFetched) =>
          \A t \in globKnown : KeyOf(t) # CallKey
    /\ (GlobReturned /\ ~globFetched) =>
          \E t \in globKnown : KeyOf(t) = CallKey
    /\ DOMAIN treeCache = DOMAIN treeSource

\* a second pattern on a pair whose tree an earlier call had fetched: the
\* call has fetched the tree again
C12_Witness ==
    /\ GlobReturned
    /\ globFetched
    /\ \E k \in FetchedFor(CallTriple.owner, CallTriple.repo, CallTriple.ref) :
          /\ k # CallKey
          /\ treeSource[k].triple.pattern # CallTriple.pattern
          /\ treeSource[k].body = globData

(***************************************************************************)
(* readFile and its range.                                                 *)
(***************************************************************************)

\* the call carries a range with start < 1 or end < start
InvalidRange ==
    /\ readArgs # <<>>
    /\ readArgs.range # <<>>
    /\ \/ readArgs.range[1].start < 1
       \/ readArgs.range[1].end < readArgs.range[1].start

\* C18 as stated: readFile with an invalid range issues no request and
\* never returns lines
C18_AsStated ==
    InvalidRange => (readCalls = <<>> /\ ~ReadReturned)

(***************************************************************************)
(* Properties of parseRepo.                                                *)
(***************************************************************************)
SlashPositions(s) == { i \in 1..Len(s) : s[i] = "/" }

\* exactly one '/', with at least one character on each side of it
WellFormedSlug(s) ==
    /\ Cardinality(SlashPositions(s)) = 1
    /\ s[1] # "/"
    /\ s[Len(s)] # "/"

\* C19: parseRepo succeeds exactly on the slugs with one '/' and a
\* non-empty part on each side; its owner and repo joined by '/' are the
\* slug; on any other slug it fails and returns nothing
C19_ParseRepo ==
    parsed # <<>> =>
        /\ parsed[1].ok <=> WellFormedSlug(slug)
        /\ parsed[1].ok =>
              /\ parsed[1].owner \o <<"/">> \o parsed[1].repo = slug
              /\ parsed[1].owner # <<>>
              /\ parsed[1].repo # <<>>
        /\ ~parsed[1].ok => DOMAIN parsed[1] = {"ok"}

\* a slug of MaxSlugLen characters with characters on each side of its
\* one '/' has been parsed
C19_Witness ==
    /\ parsed # <<>>
    /\ parsed[1].ok
    /\ Len(slug) = MaxSlugLen
    /\ Len(parsed[1].owner) + Len(parsed[1].repo) = MaxSlugLen - 1

(***************************************************************************)
(* Properties of createSnippetsFromLines.                                  *)
(***************************************************************************)
\* C15: the snippet of match index i in a file of n lines with context c
\* (2 when unset) starts at line max(1, i+1-c), ends at line
\* min(n, i+1+c) and holds the file lines from the one to the other, so
\* that 1 <= startLine <= i+1 <= endLine <= n; one snippet per index
C15_SnippetWindow ==
    snippets # <<>> =>
        LET n == Len(snippetArgs.fileLines)
            c == IF snippetArgs.context = <<>> THEN 2
                 ELSE snippetArgs.context[1]
        IN  /\ Len(snippets[1]) = Len(snippetArgs.indices)
            /\ \A k \in 1..Len(snippets[1]) :
                  LET i == snippetArgs.indices[k]
                      snippet == snippets[1][k]
                  IN  /\ snippet.startLine = Max(1, i + 1 - c)
                      /\ snippet.endLine = Min(n, i + 1 + c)
                      /\ snippet.lines
                           = SubSeq(snippetArgs.fileLines, snippet.startLine,
                                    snippet.endLine)
                      /\ 1 <= snippet.startLine
                      /\ snippet.startLine <= i + 1
                      /\ i + 1 <= snippet.endLine
                      /\ snippet.endLine <= n
                      /\ Len(snippet.lines)
                           = snippet.endLine - snippet.startLine + 1
                      /\ c = 0 => snippet.lines = <<snippetArgs.fileLines[i + 1]>>
                      /\ c >= n => snippet.lines = snippetArgs.fileLines

\* the case of the unit test: index 3 in a file of 8 lines, the context
\* unset, gives lines 2 to 6
C15_Witness ==
    /\ snippets # <<>>
    /\ Len(snippetArgs.fileLines) = 8
    /\ snippetArgs.indices = <<3>>
    /\ snippetArgs.context = <<>>
    /\ snippets[1][1].startLine = 2
    /\ snippets[1][1].endLine = 6
    /\ Len(snippets[1][1].lines) = 5

(***************************************************************************)
(* Properties of searchCode, searchCommits and compareCommits.             *)
(***************************************************************************)
SearchReturned == searchPc = "done" /\ searchOutcome = "ok"

CodeReturned == SearchReturned /\ searchOp = "searchCode"

\* the ranks, in the remote's hit list, of the items returned
ReturnedRanks ==
    [k \in 1..Len(searchResult) |->
        IF searchOp = "searchCode" THEN searchResult[k].path
        ELSE searchResult[k].sha]

\* the ranks offset+1 .. offset+limit, as far as the hit list goes
AskedRanks ==
    LET first == searchOffset(searchArgs) + 1
        last == Min(searchOffset(searchArgs) + searchLimit(searchOp, searchArgs),
                    Len(searchHits))
    IN  [k \in 1..Max(0, last - first + 1) |-> first + k - 1]

\* C13 as stated: searchCode and searchCommits return the hits at ranks
\* offset+1 .. offset+limit of the remote's list, in rank order, whatever
\* the offset and the limit
C13_AsStated ==
    (SearchReturned /\ searchOp \in {"searchCode", "searchCommits"}) =>
        ReturnedRanks = AskedRanks

\* the lines of a blob of the remote, its carriage returns apart
RemoteLines(sha) ==
    splitAtLineFeeds(SelectSeq(BlobText(sha), LAMBDA ch : ch # "\r"), 1, <<>>)

\* the snippets of a hit whose blob has been read
SnippetsOf(item) ==
    createSnippetsFromLines(
        RemoteLines(item.sha),
        collectMatchLineIndices(IF item.text_matches = <<>> THEN <<>>
                                ELSE item.text_matches[1],
                                RemoteLines(item.sha)),
        searchArgs.context)

\* the blob of the k-th retained hit could not be read
Unreadable(k) == fileCache[itemKey(Results[k], SearchRepo)] = <<>>

\* one result item per retained hit, in slice order; no snippet for an
\* unreadable file, its snippets for any other
ItemPerRetainedHit ==
    /\ Len(searchResult) = Len(Results)
    /\ \A k \in 1..Len(Results) :
          /\ searchResult[k].path = Results[k].path
          /\ searchResult[k].ref = Results[k].sha
          /\ searchResult[k].snippets
               = IF Unreadable(k) THEN <<>> ELSE SnippetsOf(Results[k])

\* a blob load of the call has failed
BlobLoadFailed ==
    \/ searchOutcome = "failure"
    \/ \E k \in 1..Len(prepared) : Unreadable(k)

\* C14 as stated: whenever a blob load fails, searchCode returns one item
\* per retained hit
C14_AsStated ==
    (searchOp = "searchCode" /\ searchPc = "done" /\ searchCollected # <<>>
       /\ BlobLoadFailed) =>
        (SearchReturned /\ ItemPerRetainedHit)

\* C14: a blob load that fails with a ViewerError (a non-success status, a
\* body without content) does not end searchCode, which returns one item
\* per retained hit in slice order, without snippets for the unreadable
\* file and with their snippets for the others; the only failure of a blob
\* load that ends the call is a rejected request, and then nothing is
\* returned
C14_ViewerErrorTolerated ==
    /\ (CodeReturned /\ searchCollected # <<>>) => ItemPerRetainedHit
    /\ (searchOp = "searchCode" /\ searchPc = "done"
          /\ searchOutcome \notin {"ok", "invalid"}) =>
          /\ searchResult = <<>>
          /\ searchOutcome
               = IF searchCalls[Len(searchCalls)].kind = "git/blobs"
                 THEN "failure" ELSE "http"

\* two hits retained, the blob of the first unreadable, the second with
\* snippets
C14_Witness ==
    /\ CodeReturned
    /\ Len(searchResult) = 2
    /\ Unreadable(1)
    /\ searchResult[1].snippets = <<>>
    /\ ~Unreadable(2)
    /\ searchResult[2].snippets # <<>>

\* the positions of the blob requests of the running or last call
BlobRequestsOfCall ==
    { n \in (callStart + 1)..Len(searchCalls) :
        searchCalls[n].kind = "git/blobs" }

\* the positions offset+1 .. offset+limit of the collected hits
SlicePositions ==
    (searchOffset(searchArgs) + 1)
      ..Min(searchOffset(searchArgs) + searchLimit(searchOp, searchArgs),
            Len(searchCollected))

\* the blob request for a hit of the call
BlobRequestFor(item) ==
    LET parts == splitSegments(item.repository.full_name, 1, <<>>)
    IN  [kind |-> "git/blobs", owner |-> parts[1],
         repo |-> IF Len(parts) >= 2 THEN parts[2] ELSE SearchRepo.repo,
         sha |-> item.sha]

RequestKey(request) ==
    request.owner \o <<"/">> \o request.repo \o <<":">> \o request.sha

\* the blob requests of a searchCode call are for hits of its slice, no
\* more than limit of them, no two for one blob
BlobsOfSliceOnly ==
    searchOp = "searchCode" =>
        /\ \A n \in BlobRequestsOfCall :
              \E k \in SlicePositions :
                  searchCalls[n] = BlobRequestFor(searchCollected[k])
        /\ Cardinality(BlobRequestsOfCall)
              <= searchLimit(searchOp, searchArgs)
        /\ \A n, m \in BlobRequestsOfCall :
              searchCalls[n] = searchCalls[m] => n = m
        /\ searchPc = "awaitBlob" =>
              RequestKey(searchCalls[Len(searchCalls)]) \notin DOMAIN blobCache

\* a blob request is issued for a blob the viewer has not loaded
NoRequestOnceLoaded ==
    (/\ Len(searchCalls') = Len(searchCalls) + 1
     /\ searchCalls'[Len(searchCalls')].kind = "git/blobs") =>
        RequestKey(searchCalls'[Len(searchCalls')]) \notin DOMAIN blobCache'

\* C23: searchCode requests blobs only for hits of the slice
\* [offset, offset+limit) of what it collected, never for a hit before the
\* offset, never more than limit in a call, never two for one repository
\* and sha in a call, and never one for a blob this viewer has loaded
C23_BlobRequests ==
    /\ []BlobsOfSliceOnly
    /\ [][NoRequestOnceLoaded]_vars

\* the second searchCode call of a viewer returns two hits with their
\* snippets without a blob request, the blobs being those of the first call
C23_Witness ==
    /\ CodeReturned
    /\ searchStarted = 2
    /\ Len(searchResult) = 2
    /\ searchResult[1].ref # searchResult[2].ref
    /\ \A k \in 1..2 : searchResult[k].snippets # <<>>
    /\ BlobRequestsOfCall = {}
    /\ \E n \in 1..callStart : searchCalls[n].kind = "git/blobs"

\* the text_matches of a hit
TextMatchesOf(item) ==
    IF item.text_matches = <<>> THEN <<>> ELSE item.text_matches[1]

\* the highlighted sub-match texts of a hit
SubMatchTexts(item) ==
    UNION { IF TextMatchesOf(item)[m].matches = <<>> THEN {}
            ELSE { sub.text[1] :
                     sub \in { TextMatchesOf(item)[m].matches[1][j] :
                                 j \in 1..Len(TextMatchesOf(item)[m].matches[1]) }
                              \cap { x \in { TextMatchesOf(item)[m].matches[1][j] :
                                         j \in 1..Len(TextMatchesOf(item)[m].matches[1]) } :
                                        x.text # <<>> /\ x.text[1] # <<>> } }
            : m \in 1..Len(TextMatchesOf(item)) }

\* the non-empty trimmed lines of the fragments of a hit
FragmentLinesOf(item) ==
    UNION { IF TextMatchesOf(item)[m].fragment = <<>> THEN {}
            ELSE Range(fragmentLines(TextMatchesOf(item)[m].fragment[1]))
            : m \in 1..Len(TextMatchesOf(item)) }

\* the smallest index of a line that contains the text without regard to
\* case, if there is one
SmallestLineWith(fileLines, text) ==
    LET holds(k) == includes(toLowerCase(fileLines[k]), toLowerCase(text))
    IN  { k - 1 : k \in { j \in 1..Len(fileLines) :
                            holds(j) /\ \A h \in 1..(j - 1) : ~holds(h) } }

\* the window of index i in a file of n lines
WindowOf(fileLines, i, context) ==
    LET c == IF context = <<>> THEN ContextDefault ELSE context[1]
        first == Max(1, i + 1 - c)
        last == Min(Len(fileLines), i + 1 + c)
    IN  [startLine |-> first, endLine |-> last,
         lines |-> SubSeq(fileLines, first, last)]

\* one snippet per index of the set, in ascending order
SnippetPerIndex(fileLines, indices, context) ==
    [j \in 1..Cardinality(indices) |->
        WindowOf(fileLines,
                 CHOOSE i \in indices :
                     Cardinality({ h \in indices : h < i }) = j - 1,
                 context)]

\* the lines searchCode has for the k-th hit of its slice
LinesOfHit(k) == fileCache[itemKey(Results[k], SearchRepo)]

\* C24 as stated: every sub-match text, as it is in the payload,
\* contributes the smallest index of a line that contains it
C24_AsStated ==
    (CodeReturned /\ searchCollected # <<>>) =>
        \A k \in 1..Len(searchResult) :
            searchResult[k].snippets
              = SnippetPerIndex(
                    LinesOfHit(k),
                    UNION { SmallestLineWith(LinesOfHit(k), text) :
                              text \in SubMatchTexts(Results[k])
                                       \cup FragmentLinesOf(Results[k]) },
                    searchArgs.context)

\* C24: every sub-match text, trimmed, and every non-empty trimmed fragment
\* line contributes at most one line index, the smallest index of a file
\* line that contains it without regard to case, a blank text contributing
\* none; the index list is strictly ascending; searchCode emits one
\* snippet per index in that order, overlapping windows not being merged
C24_FirstLinePerNeedle ==
    (CodeReturned /\ searchCollected # <<>>) =>
        \A k \in 1..Len(searchResult) :
            LET texts == { trim(text) : text \in SubMatchTexts(Results[k]) }
                         \cup FragmentLinesOf(Results[k])
                idx == collectMatchLineIndices(TextMatchesOf(Results[k]),
                                               LinesOfHit(k))
            IN  /\ searchResult[k].snippets
                     = SnippetPerIndex(
                           LinesOfHit(k),
                           UNION { SmallestLineWith(LinesOfHit(k), text) :
                                     text \in texts \ {<<>>} },
                           searchArgs.context)
                /\ Len(searchResult[k].snippets) = Len(idx)
                /\ \A j \in 1..(Len(idx) - 1) : idx[j] < idx[j + 1]

\* a hit with two snippets whose windows overlap, one of them from a
\* sub-match text with a blank at its end
C24_Witness ==
    /\ CodeReturned
    /\ \E k \in 1..Len(searchResult) :
          /\ Len(searchResult[k].snippets) = 2
          /\ searchResult[k].snippets[1].endLine
                >= searchResult[k].snippets[2].startLine
          /\ \E text \in SubMatchTexts(Results[k]) : trim(text) # text

CompareReturned == SearchReturned /\ searchOp = "compareCommits"

\* the file records of the compare response
RemoteFilesChanged ==
    IF searchData.files = <<>> THEN <<>> ELSE searchData.files[1]

\* C16: a file-change record of compareCommits has no patch unless
\* includePatches is true, and then it has the patch of the remote record;
\* its other fields are those of the remote record in either case
C16_PatchOnlyOnRequest ==
    CompareReturned =>
        /\ Len(searchResult.files) = Len(RemoteFilesChanged)
        /\ \A k \in 1..Len(RemoteFilesChanged) :
              LET file == RemoteFilesChanged[k]
                  change == searchResult.files[k]
              IN  /\ change.patch
                       = IF searchArgs.includePatches = <<TRUE>>
                         THEN file.patch ELSE <<>>
                  /\ change.sha = file.sha
                  /\ change.filename = file.filename
                  /\ change.status = file.status
                  /\ change.additions = file.additions
                  /\ change.deletions = file.deletions
                  /\ change.changes = file.changes
                  /\ change.previousFilename = file.previous_filename

\* includePatches false, a remote record with a patch, returned without it
C16_Witness ==
    /\ CompareReturned
    /\ searchArgs.includePatches = <<FALSE>>
    /\ Len(RemoteFilesChanged) = MaxCompareFiles
    /\ RemoteFilesChanged[1].patch # <<>>
    /\ searchResult.files[1].patch = <<>>

\* every character of the text is a blank
Blank(text) == \A i \in 1..Len(text) : text[i] = " "

\* the arguments of the call are ones the operation must refuse
RefusedArgs ==
    \/ /\ searchOp = "compareCommits"
       /\ (searchArgs.base = <<>> \/ searchArgs.head = <<>>)
    \/ /\ searchOp = "searchCode"
       /\ Blank(searchArgs.pattern)

\* C17: a compareCommits call with an empty base or head, and a searchCode
\* call with a pattern that is blank, end at once with a ViewerError: no
\* request is issued and no cache changes
C17_RefusedBeforeRequest ==
    [][(searchStarted' = searchStarted + 1 /\ RefusedArgs') =>
          /\ searchPc' = "done"
          /\ searchOutcome' = "invalid"
          /\ searchResult' = <<>>
          /\ UNCHANGED <<searchCalls, blobCache, treeCache, repoDefaults>>]_vars

\* a searchCode call with a blank pattern refused on a viewer whose blob
\* cache an earlier call has filled
C17_Witness ==
    /\ searchOp = "searchCode"
    /\ Blank(searchArgs.pattern)
    /\ searchArgs.pattern # <<>>
    /\ searchPc = "done"
    /\ searchOutcome = "invalid"
    /\ blobCache # <<>>
    /\ Len(searchCalls) = callStart

(***************************************************************************)
(* Properties of the caches.                                               *)
(***************************************************************************)
\* the cache key of the running or last globFiles call, its ref known
TreeKey == cacheKey(globArgs.repo, globRef[1], globArgs.pattern)

\* the last globFiles call failed on its tree request: a non-success
\* status, or a body without a tree field
GlobFailedAtTree ==
    /\ globPc = "done"
    /\ globOutcome \in {"http", "noTree"}
    /\ globRef # <<>>

\* the blob request for the hit
BlobRequest(item) ==
    [kind |-> "git/blobs", owner |-> targetRepo(item, SearchRepo).owner,
     repo |-> targetRepo(item, SearchRepo).repo, sha |-> item.sha]

\* the requests of the running or last search call
RequestsOfCall ==
    { searchCalls[n] : n \in (callStart + 1)..Len(searchCalls) }

\* what the caches hold came from a response that had it
OnlyFetchedIsCached ==
    /\ GlobFailedAtTree => TreeKey \notin DOMAIN treeCache
    /\ \A key \in DOMAIN treeCache :
          /\ key \in DOMAIN treeSource
          /\ treeSource[key].body.tree # <<>>
    /\ blobFailed \cap DOMAIN blobCache = {}
    /\ \A key \in DOMAIN repoDefaults :
          /\ repoDefaults[key] # <<>>
          /\ <<repoDefaults[key]>> \in DefaultBranches

\* a searchCode call has asked for every blob it went through whose load
\* has failed, in this call or an earlier one, and has not succeeded since
FailedBlobAskedAgain ==
    searchOp = "searchCode" =>
        \A k \in 1..Len(prepared) :
            itemKey(Results[k], SearchRepo) \in blobFailed
                => BlobRequest(Results[k]) \in RequestsOfCall

\* the tree cache is written by the step that receives a tree
TreeCachedOnSuccess ==
    treeCache' # treeCache =>
        /\ globPc = "awaitTree"
        /\ globOutcome' = "ok"
        /\ globData'.tree # <<>>
        /\ DOMAIN treeCache' = DOMAIN treeCache \cup {TreeKey}

\* the blob cache is written by the step that receives a blob's content
BlobCachedOnSuccess ==
    blobCache' # blobCache =>
        /\ searchPc = "awaitBlob"
        /\ searchOutcome' # "failure"
        /\ LoadingKey \notin blobFailed'
        /\ \E data \in BlobBodies(Results[Len(prepared) + 1].sha) :
              /\ data.content # <<>>
              /\ data.content # << <<>> >>
              /\ blobCache' = MapSet(blobCache, LoadingKey, blobLines(data))

\* a default branch is stored by the step that receives a response naming it
DefaultCachedOnSuccess ==
    repoDefaults' # repoDefaults =>
        /\ globPc = "awaitDefault"
        /\ \E branch \in DefaultBranches :
              /\ branch # <<>>
              /\ repoDefaults' = MapSet(repoDefaults, repoKey(globArgs.repo),
                                        branch[1])

\* a globFiles call that repeats the one that has just failed on its tree
\* request issues the tree request again
FailedTreeAskedAgain ==
    (GlobFailedAtTree /\ globStarted' = globStarted + 1 /\ globArgs' = globArgs)
        => /\ globPc' = "awaitTree"
           /\ globCalls' = Append(globCalls,
                                  [kind |-> "tree", repo |-> globArgs.repo,
                                   ref |-> globRef[1]])

\* C20: a failed fetch adds no cache entry.  After globFiles has failed on
\* its tree request (non-success status, or a body without tree) the tree
\* cache has no entry for the key and the next identical call issues the
\* tree request again; after a blob load has failed during searchCode the
\* blob cache has no entry for the blob and a later searchCode that goes
\* through it requests it again; a default branch is cached only on a
\* response that names one
C20_FailedFetchNotCached ==
    /\ [](OnlyFetchedIsCached /\ FailedBlobAskedAgain)
    /\ [][/\ TreeCachedOnSuccess
          /\ BlobCachedOnSuccess
          /\ DefaultCachedOnSuccess
          /\ FailedTreeAskedAgain]_vars

\* two globFiles calls have failed on the tree request of one key, and the
\* second searchCode call is asking again for a blob whose load failed in
\* the first
C20_Witness ==
    /\ globStarted = 2
    /\ GlobFailedAtTree
    /\ TreeKey \notin DOMAIN treeCache
    /\ \E i, j \in 1..Len(globCalls) :
          i < j /\ globCalls[i].kind = "tree" /\ globCalls[i] = globCalls[j]
    /\ searchStarted = 2
    /\ searchPc = "awaitBlob"
    /\ LoadingKey \in blobFailed
    /\ LoadingKey \notin DOMAIN blobCache
    /\ \E n \in 1..callStart :
          searchCalls[n] = searchCalls[Len(searchCalls)]

\* C27 as stated: the matches of a successful call served from the cache
\* were computed for the (owner, repo, ref, pattern) of the call, and they
\* are the blobs of the tree fetched for that repository and ref that the
\* pattern of the call matches
C27_AsStated ==
    (GlobReturned /\ ~globFetched) =>
        /\ treeSource[CallKey].triple = CallTriple
        /\ globResult.matches
             = globMatches(treeSource[CallKey].body.tree[1],
                           globArgs.pattern, 1)

(***************************************************************************)
(* Properties of the filters and the paging of searchRepositories.         *)
(***************************************************************************)
\* C25 as stated: a candidate passes the pattern filter exactly when each
\* term of the pattern is, without regard to case, part of its short name
\* or part of its full name, term by term
C25_AsStated ==
    pureResult # <<>> =>
        (pureResult[1] <=>
            LET terms == SplitTerms(toLowerCase(trim(pureArgs.pattern)), 1, <<>>)
            IN  \A k \in 1..Len(terms) :
                    \/ includes(toLowerCase(summaryName(pureArgs)), terms[k])
                    \/ includes(toLowerCase(pureArgs.full_name), terms[k]))

\* the three calls of the client have returned
PagingDone == Len(pureResult) = Len(PagingCalls(pureArgs))

\* C26 as stated: for every remote and every k, the result of (0, k)
\* followed by that of (k, k) is the result of (0, 2k)
C26_AsStated ==
    PagingDone =>
        pureResult[1].items \o pureResult[2].items = pureResult[3].items

\* C26: when 2k is no more than the largest limit and the call (0, k)
\* collects fewer unique candidates than its cap k + 100, the result of
\* (0, k) followed by that of (k, k) is the result of (0, 2k)
C26_PagingBelowCap ==
    (/\ PagingDone
     /\ 2 * pureArgs.k <= RepoLimitMax
     /\ pureResult[1].size < pureArgs.k + IntermediateMargin) =>
        pureResult[1].items \o pureResult[2].items = pureResult[3].items

\* two pages of two repositories each, from a listing of a full page and
\* one more repository, the second page holding what the first does not
C26_Witness ==
    /\ PagingDone
    /\ pureArgs.k = 2
    /\ Len(pureArgs.listing) = 2
    /\ pureResult[1].size = SearchPageSize + 1
    /\ Len(pureResult[1].items) = 2
    /\ Len(pureResult[2].items) = 2
    /\ Range(pureResult[1].items) \cap Range(pureResult[2].items) = {}

(***************************************************************************)
(* Properties of limit and offset.                                         *)
(***************************************************************************)
\* the limit is missing, NaN, zero or negative
NoUsableLimit == notANumber(pureArgs.limit) \/ pureArgs.limit.value <= 0

\* the offset is missing, NaN or negative
NoUsableOffset == notANumber(pureArgs.offset) \/ pureArgs.offset.value < 0

\* the three calls of the client have returned
LimitsDone == Len(pureResult) = Len(LimitVariants(pureArgs))

\* C30: a call of searchRepositories, searchCode or searchCommits returns
\* at most 100 items, and at most limit items when limit is an integer of 1
\* or more; with a limit that is missing, NaN, zero or negative the limit in
\* force is the default of the operation (30, 30, 50) and the call returns
\* what it returns without a limit, as many items as the default allows;
\* with an offset that is missing, NaN or negative the offset in force is 0
\* and the call returns what it returns with offset 0
C30_LimitsAndDefaults ==
    /\ \A i \in 1..Len(pureResult) :
          /\ Len(pureResult[i].items) <= SearchLimitMax
          /\ Len(pureResult[i].items) <= RepoLimitMax
    /\ (pureResult # <<>> /\ ~NoUsableLimit) =>
          Len(pureResult[1].items) <= pureArgs.limit.value
    /\ (LimitsDone /\ NoUsableLimit) =>
          /\ normalizeLimitOf(pureArgs.limit, defaultLimit(pureArgs.op),
                              SearchLimitMax) = defaultLimit(pureArgs.op)
          /\ pureResult[1].items = pureResult[2].items
          /\ Len(pureResult[1].items)
               = Min(defaultLimit(pureArgs.op),
                     Max(0, pureArgs.held
                              - normalizeOffsetOf(pureArgs.offset)))
    /\ (LimitsDone /\ NoUsableOffset) =>
          /\ normalizeOffsetOf(pureArgs.offset) = 0
          /\ pureResult[1].items = pureResult[3].items

\* a call with limit NaN and offset NaN on a remote that holds more than
\* the default returns as many items as the default, from the first on,
\* as do the calls without a limit and with offset 0
C30_Witness ==
    /\ LimitsDone
    /\ pureArgs.op = "searchCommits"
    /\ pureArgs.limit = NaN
    /\ pureArgs.offset = NaN
    /\ pureArgs.held = CommitLimitDefault + 1
    /\ Len(pureResult[1].items) = CommitLimitDefault
    /\ pureResult[1].items[1].sha = 1

\* C29 as stated: every call of searchRepositories comes to its end,
\* whatever the remote answers
C29_AsStated == <>(pc = "done")

(***************************************************************************)
(* Properties of globFiles calls that run at the same time.                *)
(***************************************************************************)
\* the cache key of the call of caller c, its ref known
FlightKey(c) ==
    cacheKey(inflight[c].args.repo, inflight[c].ref[1], inflight[c].args.pattern)

\* C28 as stated: two calls for one (repository, ref, pattern) never both
\* wait for a tree response: the later call issues no tree request while
\* that of the earlier one is pending
C28_AsStated ==
    \A c, d \in Callers :
        (/\ c # d
         /\ inflight[c].pc = "awaitTree"
         /\ inflight[d].pc = "awaitTree") => FlightKey(c) # FlightKey(d)

====
